---- MODULE Spec2Model ----
(***************************************************************************)
(* Model of the channel-based connection pool of                           *)
(* patterns/work-pools/db/db_pool.go (ConnectionPool).  The redis pool of  *)
(* the repository repeats the same code for another resource type; where   *)
(* its Open and Close differ, the variable variant selects the code.       *)
(*                                                                         *)
(* A Go channel is a record [cap, buf, sendq, closed]: its capacity, the   *)
(* buffered values in FIFO order, the senders parked on it and whether     *)
(* close was called on it.  p.conns is an index                            *)
(* into chans, the channels allocated so far, because                      *)
(* CloseExpiredConnections assigns a new channel to the field.             *)
(* Callers are goroutines that call Acquire and Release; the cleaner is    *)
(* the goroutine Open starts on the ticker.                                *)
(*                                                                         *)
(* The token bucket, the Producer, the leaky bucket and the counter of the *)
(* repository follow, each with its own variables and specification; a     *)
(* specification leaves the variables of the other packages as they start. *)
(***************************************************************************)
EXTENDS Integers, Sequences, FiniteSets, TLC

(* ---- bounds of the model ---- *)
NumCallers == 2
MaxSize == 2
MaxTTL == 1
MaxTime == 4
MaxEntries == 3
MaxTicks == 1
MaxCloses == 2
NumBuckets == 1
MaxCapacity == 2
NumProcs == 1
MaxBuffer == 2
MaxItems == 3
MaxClock == 6
MaxRate == 2
MaxLeak == 3
MaxRps == 2
MaxRequests == 4
TicksPerSecond == 2
MaxDrift == 1
NumConsumers == 2
MaxWindow == 4
MaxBuckets == 3

(* time.Time{}: the zero heartbeat of a DBConn the factory did not stamp.  *)
(* The clock starts late enough for a zero heartbeat to lie in the past.   *)
ZeroTime == 0
StartTime == ZeroTime + MaxTTL + 1

Callers == 1..NumCallers
None == 0
Nobody == None
Cleaner_ == NumCallers + 1
Closer_ == NumCallers + 2
Variants == {"db", "redis"}
TTLs == 1..MaxTTL

VARIABLES
    now,             \* time.Now()
    phase,           \* "new" after New, "open" after Open returned nil, "failed" after Open returned an error
    maxConnections,  \* p.maxConnections
    minConnections,  \* p.minConnections
    chans,           \* the channels allocated so far
    conns,           \* p.conns: index into chans
    dbconns,         \* every *DBConn created so far: [HeartBeat, TimeOut, closed]
    cleanupTicker,   \* p.cleanupTicker: "nil" or "running"
    cl,              \* the cleaner goroutine: [pc, timeout, newConns, i, made]; made counts the
                     \* OpenConnection calls of its MaintainMinConnections that succeeded
    pc,              \* per caller: "idle", "acquiring" (parked in Acquire's select), "releasing" (parked in Release's send)
    held,            \* per caller: the connection it holds, or None
    wch,             \* per caller: the value of p.conns it read last; the channel it is parked on
    last,            \* what the step just taken did: [op, who, got, err, n]
    variant,         \* the pool's code: "db" (dbpool.ConnectionPool) or "redis" (redispool.RedisConnectionPool)
    once,            \* the package variable once of dbpool: its Do has run
    cz               \* the goroutine that calls Close: [pc, ch, n]

\* rate-limiting/token_bucket: the buckets of one process
VARIABLES
    atomicClosedState,  \* package variable: set by the first atomicClose of a closed channel
    atomicTokensState,  \* package variable: set by the first atomicClose of a tokens channel
    tb,                 \* every *TokenBucket created so far: [capacity, available, tokens, tokensClosed,
                        \* closed, closeCalled, closeReturned]; tokens is len(tb.tokens)
    filler,             \* per bucket, its startFillingTokens goroutine: [pc, reg]
    tcall,              \* per caller: [pc, b, reg], its position in Take, Put, Wait or Close of bucket b
    tlast               \* what the step just taken did: [op, who, b, err]

\* producer-consumer: one Producer, the out channel handed to Inject and its context
VARIABLES
    Buffer,             \* p.Buffer
    out,                \* the out channel of Inject
    ctxDone,            \* ctx.Done() is closed
    procs,              \* per runProc goroutine: [pc, data]
    inj,                \* the goroutine that runs Inject: [pc, data]
    produced,           \* number of items ProduceFunc has returned and the test has sent
    plast               \* what the step just taken did: [op, who, data, res]

\* rate-limiting/leaky_bucket and rate-limiting/counter
VARIABLES
    clock,              \* time.Now() of the two limiters
    lb,                 \* the *LeakyBucket: [capacity, rate, requests, lastTime]
    lblast,             \* the Allow call of the leaky bucket that just returned: [ret, requests, outflow]
    ctr,                \* the *Counter: [reqs, last, rps]
    cg,                 \* per goroutine in Counter.Allow: [pc, now, elapsed, reg]
    clast               \* what the step of Counter.Allow just taken did: [op, who, ret]

\* producer-consumer: one Consumer and its context
VARIABLES
    cBuffer,            \* c.Buffer
    Notifier,           \* c.Notifier is set
    ErrHandler,         \* c.ErrHandler is set
    cCtxDone,           \* ctx.Done() of the context given to c.Run is closed
    cprocs,             \* per runProc goroutine of the Consumer: [pc, data]
    crun,               \* c.Run: "off", "running" (in wg.Wait) or "returned"
    fed,                \* number of items sent on c.Buffer
    consumed,           \* per item, the number of ConsumeFunc calls it was passed to
    colast              \* what the step just taken did: [op, who, data, res, notified, handled]

\* rate-limiting/sliding window (package window)
VARIABLES
    sw,                 \* the *SlidingWindow: [windowSize, bucketSize, bucketCount, buckets,
                        \* startTime, lastRequestTime]
    swlast              \* the call of the sliding window that just returned: [op, ret, idx]

poolVars == <<now, phase, maxConnections, minConnections, chans, conns, dbconns,
              cleanupTicker, cl, pc, held, wch, last, variant, once, cz>>
tbVars == <<atomicClosedState, atomicTokensState, tb, filler, tcall, tlast>>
prodVars == <<Buffer, out, ctxDone, procs, inj, produced, plast>>
lbVars == <<lb, lblast>>
ctrVars == <<ctr, cg, clast>>
consVars == <<cBuffer, Notifier, ErrHandler, cCtxDone, cprocs, crun, fed, consumed, colast>>
swVars == <<sw, swlast>>

vars == <<poolVars, tbVars, prodVars, clock, lbVars, ctrVars, consVars, swVars>>

\* the event of a step: the call that returned (or the receive of the scan), the
\* goroutine, the connection it received or sent, the error it returned, and for
\* Open the number of OpenConnection calls it made
Ev(op, who, got, err, n) == [op |-> op, who |-> who, got |-> got, err |-> err, n |-> n]
\* the event of a step in which no call returns
Quiet == Ev("-", Nobody, None, "nil", 0)

(* ---- time.Time ---- *)
Add(t, d) == t + d
Before(t, u) == t < u

(* ---- Go channels ---- *)
MakeChan(n) == [cap |-> n, buf |-> <<>>, sendq |-> <<>>, closed |-> FALSE]

\* len(ch)
ChanLen(ch) == Len(ch.buf)

\* a receive on ch can proceed: a value is buffered or a sender is parked
CanRecv(ch) == Len(ch.buf) > 0 \/ Len(ch.sendq) > 0

\* the value a receive on ch yields
RecvVal(ch) == IF Len(ch.buf) > 0 THEN Head(ch.buf) ELSE Head(ch.sendq).conn

\* the sender a receive on ch releases, or Nobody
RecvWakes(ch) == IF Len(ch.sendq) > 0 THEN Head(ch.sendq).who ELSE Nobody

\* a faulty variant of RecvRest: the receive leaves the value in the channel
RecvRestPeek(ch) == ch

\* ch after a receive: the head leaves; a parked sender's value takes the free slot
RecvRest(ch) ==
    IF Len(ch.buf) > 0
    THEN IF Len(ch.sendq) > 0
         THEN [ch EXCEPT !.buf = Append(Tail(ch.buf), Head(ch.sendq).conn),
                         !.sendq = Tail(ch.sendq)]
         ELSE [ch EXCEPT !.buf = Tail(ch.buf)]
    ELSE [ch EXCEPT !.sendq = Tail(ch.sendq)]

\* a send on ch completes at once
CanSend(ch) == Len(ch.buf) < ch.cap

\* ch after the send of e by who: buffered, or who is parked on ch
SendRest(ch, who, e) ==
    IF CanSend(ch)
    THEN [ch EXCEPT !.buf = Append(ch.buf, e)]
    ELSE [ch EXCEPT !.sendq = Append(ch.sendq, [who |-> who, conn |-> e])]

(* ---- DBConn ---- *)
\* a faulty variant of isConnectionExpired: the boundary counts as expired
isConnectionExpiredAtBoundary(e) ==
    ~Before(now, Add(dbconns[e].HeartBeat, dbconns[e].TimeOut))

\* conn.HeartBeat.Add(conn.TimeOut).Before(time.Now())
isConnectionExpired(e) ==
    Before(Add(dbconns[e].HeartBeat, dbconns[e].TimeOut), now)

\* the test of CloseExpiredConnections: the connection is kept
ScanKeeps(e) ==
    ~Before(Add(dbconns[e].HeartBeat, dbconns[e].TimeOut), now)

\* a faulty variant of CloseDB: every connection opened so far is closed with it
CloseDBEvery(d, e) == [i \in DOMAIN d |-> [d[i] EXCEPT !.closed = @ + 1]]

\* conn.DB.Close()
CloseDB(d, e) == [d EXCEPT ![e].closed = @ + 1]

\* what one OpenConnection call can return at time t: an error, or a DBConn whose
\* HeartBeat the factory stamped or left zero
FactoryResults(t) ==
    {[err |-> TRUE, HeartBeat |-> ZeroTime, TimeOut |-> 0]}
    \cup {[err |-> FALSE, HeartBeat |-> hb, TimeOut |-> ttl] :
             hb \in {ZeroTime, t}, ttl \in TTLs}

\* the *DBConn a successful OpenConnection call returned
NewConn(r) == [HeartBeat |-> r.HeartBeat, TimeOut |-> r.TimeOut, closed |-> 0]

\* if conn.HeartBeat.IsZero() { conn.HeartBeat = time.Now() }: only in Open of
\* the redis pool
Stamped(r) ==
    IF variant = "redis" /\ ~r.err /\ r.HeartBeat = ZeroTime
    THEN [r EXCEPT !.HeartBeat = now]
    ELSE r

\* the value of p.conns caller c may read: the cleaner writes the field without
\* synchronisation while callers read it, and a caller can be preempted between
\* reading the field and using the channel, so the channel it uses is the one it
\* read last or any that was assigned since
ReadConns(c) == wch[c]..conns

(* ---- the other packages when the process starts ---- *)
TbQuiet == [op |-> "-", who |-> Nobody, b |-> 0, err |-> "nil"]

\* var atomicClosedState uint32; var atomicTokensState uint32; no bucket yet.
\* earlier: a bucket this process made before has been closed, which left both
\* package variables 1
TbStart(earlier) ==
    /\ atomicClosedState = (IF earlier THEN 1 ELSE 0)
    /\ atomicTokensState = (IF earlier THEN 1 ELSE 0)
    /\ tb = <<>>
    /\ filler = <<>>
    /\ tcall = [c \in Callers |-> [pc |-> "idle", b |-> 0, reg |-> 0]]
    /\ tlast = TbQuiet

PQuiet == [op |-> "-", who |-> Nobody, data |-> 0, res |-> "-"]

\* p := NewProducer(bufferSize, NumProcs); out := make(chan interface{}, outSize);
\* ctx, cancel := context.WithCancel(context.Background())
NewProducer(bufferSize, outSize) ==
    /\ Buffer = MakeChan(bufferSize)
    /\ out = MakeChan(outSize)
    /\ ctxDone = FALSE
    /\ procs = [w \in 1..NumProcs |-> [pc |-> "off", data |-> 0]]
    /\ inj = [pc |-> "off", data |-> 0]
    /\ produced = 0
    /\ plast = PQuiet

LbQuiet == [op |-> "-", ret |-> FALSE, requests |-> 0, outflow |-> 0, elapsed |-> 0]

\* leakybucket.New(capacity, rate): requests is 0 and lastTime the zero time
NewLeakyBucket(capacity, rate) ==
    /\ lb = [capacity |-> capacity, rate |-> rate, requests |-> 0, lastTime |-> ZeroTime]
    /\ lblast = LbQuiet

CQuiet == [op |-> "-", who |-> Nobody, ret |-> FALSE]

\* counter.New(rps): reqs is 0 and last the zero time
NewCounter(rps) ==
    /\ ctr = [reqs |-> 0, last |-> ZeroTime, rps |-> rps]
    /\ cg = [c \in Callers |-> [pc |-> "idle", now |-> 0, elapsed |-> 0, reg |-> 0]]
    /\ clast = CQuiet

CoQuiet == [op |-> "-", who |-> Nobody, data |-> 0, res |-> "-", notified |-> FALSE, handled |-> FALSE]

\* c := NewConsumer(bufferSize, NumConsumers); c.Notifier and c.ErrHandler are nil
\* until the caller sets them
NewConsumer(bufferSize, notifier, errHandler) ==
    /\ cBuffer = MakeChan(bufferSize)
    /\ Notifier = notifier
    /\ ErrHandler = errHandler
    /\ cCtxDone = FALSE
    /\ cprocs = [w \in 1..NumConsumers |-> [pc |-> "off", data |-> 0]]
    /\ crun = "off"
    /\ fed = 0
    /\ consumed = [d \in 1..MaxItems |-> 0]
    /\ colast = CoQuiet

SwQuiet == [op |-> "-", ret |-> "-", idx |-> 0]

\* window.New(windowSize, bucketSize, bucketCount): buckets is make([]int,
\* bucketCount), startTime and lastRequestTime the zero time
NewWindow(windowSize, bucketSize, bucketCount) ==
    /\ sw = [windowSize |-> windowSize, bucketSize |-> bucketSize,
             bucketCount |-> bucketCount, buckets |-> [i \in 1..bucketCount |-> 0],
             startTime |-> ZeroTime, lastRequestTime |-> ZeroTime]
    /\ swlast = SwQuiet

\* the two packages above as they start
LaterStart == NewConsumer(1, TRUE, TRUE) /\ NewWindow(1, 1, 1)

\* the packages a specification does not exercise stay as they start
restVars == <<tbVars, prodVars, clock, lbVars, ctrVars, consVars, swVars>>
RestStart ==
    /\ TbStart(FALSE)
    /\ NewProducer(1, 1)
    /\ clock = ZeroTime + 1
    /\ NewLeakyBucket(1, 1)
    /\ NewCounter(1)
    /\ LaterStart

(* ---- New ---- *)
New(v) ==
    /\ now = StartTime
    /\ phase = "new"
    /\ maxConnections \in 1..MaxSize
    /\ minConnections \in 0..maxConnections
    /\ chans = <<MakeChan(maxConnections)>>
    /\ conns = 1
    /\ dbconns = <<>>
    /\ cleanupTicker = "nil"
    /\ cl = [pc |-> "sleep", timeout |-> 0, newConns |-> 0, i |-> 0, made |-> 0]
    /\ pc = [c \in Callers |-> "idle"]
    /\ held = [c \in Callers |-> None]
    /\ wch = [c \in Callers |-> 1]
    /\ last = Quiet
    /\ variant = v
    /\ once = FALSE
    /\ cz = [pc |-> "idle", ch |-> 0, n |-> 0]

\* a pool of package dbpool
Init == New("db") /\ RestStart

(* ---- Open ---- *)
\* a faulty variant of OpenLoop: the loop stops one connection short
RECURSIVE OpenLoopShort(_, _, _)
OpenLoopShort(i, outs, st) ==
    IF i >= maxConnections - 1 THEN st
    ELSE IF outs[i + 1].err
         THEN [st EXCEPT !.calls = @ + 1, !.err = "factory"]
         ELSE OpenLoopShort(i + 1, outs,
                  [st EXCEPT !.calls = @ + 1,
                             !.db = Append(@, NewConn(Stamped(outs[i + 1]))),
                             !.ch = SendRest(@, Nobody, Len(st.db) + 1)])

\* a faulty variant of OpenLoop: a failed call is skipped and the loop goes on
RECURSIVE OpenLoopContinue(_, _, _)
OpenLoopContinue(i, outs, st) ==
    IF i >= maxConnections THEN st
    ELSE IF outs[i + 1].err
         THEN OpenLoopContinue(i + 1, outs,
                  [st EXCEPT !.calls = @ + 1, !.err = "factory"])
         ELSE OpenLoopContinue(i + 1, outs,
                  [st EXCEPT !.calls = @ + 1,
                             !.db = Append(@, NewConn(Stamped(outs[i + 1]))),
                             !.ch = SendRest(@, Nobody, Len(st.db) + 1)])

\* for i := 0; i < p.maxConnections; i++ { conn, err := p.OpenConnection(); ... p.conns <- conn }
\* outs[i+1] is what the call of iteration i returns
RECURSIVE OpenLoop(_, _, _)
OpenLoop(i, outs, st) ==
    IF i >= maxConnections THEN st
    ELSE IF outs[i + 1].err
         THEN [st EXCEPT !.calls = @ + 1, !.err = "factory"]
         ELSE OpenLoop(i + 1, outs,
                  [st EXCEPT !.calls = @ + 1,
                             !.db = Append(@, NewConn(Stamped(outs[i + 1]))),
                             !.ch = SendRest(@, Nobody, Len(st.db) + 1)])

\* Open is followed on a pool whose p.conns nothing was sent to and that was not
\* closed before
Open ==
    /\ phase = "new"
    /\ ~CanRecv(chans[conns])
    /\ ~chans[conns].closed
    /\ \E outs \in [1..maxConnections -> FactoryResults(now)] :
         LET r == OpenLoop(0, outs, [calls |-> 0, err |-> "nil", db |-> dbconns,
                                     ch |-> chans[conns]])
         IN /\ dbconns' = r.db
            /\ chans' = [chans EXCEPT ![conns] = r.ch]
            /\ phase' = IF r.err = "nil" THEN "open" ELSE "failed"
            /\ cleanupTicker' = IF r.err = "nil" THEN "running" ELSE cleanupTicker
            /\ last' = Ev("Open", Nobody, None, r.err, r.calls)
    /\ UNCHANGED <<variant, once, cz, now, maxConnections, minConnections, conns, cl, pc, held, wch>>

(* ---- Acquire ---- *)
\* the goroutine a receive released goes on: a caller's Release returns, the
\* cleaner's MaintainMinConnections goes to its next iteration
WokenPc(w, f) == IF w \in Callers THEN [f EXCEPT ![w] = "idle"] ELSE f
WokenHeld(w, f) == IF w \in Callers THEN [f EXCEPT ![w] = None] ELSE f
WokenCl(w, r) == IF w = Cleaner_ THEN [r EXCEPT !.pc = "refill", !.i = @ + 1] ELSE r

\* case conn := <-p.conns of Acquire, taken by caller c on channel k
AcquireRecv(c, k) ==
    LET e == RecvVal(chans[k])
        w == RecvWakes(chans[k])
    IN /\ CanRecv(chans[k])
       /\ chans' = [chans EXCEPT ![k] = RecvRest(@)]
       /\ cl' = WokenCl(w, cl)
       /\ pc' = [WokenPc(w, pc) EXCEPT ![c] = "idle"]
       /\ wch' = [wch EXCEPT ![c] = k]
       /\ IF isConnectionExpired(e)
          THEN /\ dbconns' = CloseDB(dbconns, e)
               /\ held' = WokenHeld(w, held)
               /\ last' = Ev("Acquire", c, e, "expired", 0)
          ELSE /\ dbconns' = dbconns
               /\ held' = [WokenHeld(w, held) EXCEPT ![c] = e]
               /\ last' = Ev("Acquire", c, e, "nil", 0)
       /\ UNCHANGED <<variant, once, cz, now, phase, maxConnections, minConnections, conns,
                      cleanupTicker>>

\* case conn := <-p.conns on a closed channel with nothing left in it: the receive
\* yields nil and isConnectionExpired(nil) reads nil.HeartBeat: the goroutine panics
AcquireNil(c, k) ==
    /\ chans[k].closed
    /\ ~CanRecv(chans[k])
    /\ pc' = [pc EXCEPT ![c] = "idle"]
    /\ wch' = [wch EXCEPT ![c] = k]
    /\ last' = Ev("Acquire", c, None, "panic", 0)
    /\ UNCHANGED <<variant, once, cz, now, phase, maxConnections, minConnections,
                   chans, conns, dbconns, cleanupTicker, cl, held>>

\* a caller enters Acquire's select: it receives at once when it can, else it parks
AcquireCall(c) ==
    /\ pc[c] = "idle"
    /\ held[c] = None
    /\ \E k \in ReadConns(c) :
         IF CanRecv(chans[k])
         THEN AcquireRecv(c, k)
         ELSE IF chans[k].closed
         THEN AcquireNil(c, k)
         ELSE /\ pc' = [pc EXCEPT ![c] = "acquiring"]
              /\ wch' = [wch EXCEPT ![c] = k]
              /\ last' = Quiet
              /\ UNCHANGED <<variant, once, cz, now, phase, maxConnections, minConnections, chans,
                             conns, dbconns, cleanupTicker, cl, held>>

\* Acquire on a pool Open has filled
Acquire(c) ==
    /\ phase = "open"
    /\ AcquireCall(c)

\* a parked Acquire receives
AcquireWake(c) ==
    /\ pc[c] = "acquiring"
    /\ IF CanRecv(chans[wch[c]])
       THEN AcquireRecv(c, wch[c])
       ELSE AcquireNil(c, wch[c])

\* a faulty variant of AcquireTimeout: Acquire is a plain receive, without the timer case
AcquireTimeoutNever(c) ==
    /\ pc[c] = "acquiring"
    /\ FALSE
    /\ UNCHANGED vars

\* case <-time.After(p.waitTimeout): the timer fires with nothing to receive
AcquireTimeout(c) ==
    /\ pc[c] = "acquiring"
    /\ ~CanRecv(chans[wch[c]])
    /\ ~chans[wch[c]].closed
    /\ pc' = [pc EXCEPT ![c] = "idle"]
    /\ last' = Ev("Acquire", c, None, "timeout", 0)
    /\ UNCHANGED <<variant, once, cz, now, phase, maxConnections, minConnections, chans, conns,
                   dbconns, cleanupTicker, cl, held, wch>>

(* ---- Release ---- *)
\* conn.HeartBeat = time.Now(); p.conns <- conn
\* a send on a closed channel panics
Release(c) ==
    /\ phase = "open"
    /\ pc[c] = "idle"
    /\ held[c] # None
    /\ \E k \in ReadConns(c) :
         /\ dbconns' = [dbconns EXCEPT ![held[c]].HeartBeat = now]
         /\ wch' = [wch EXCEPT ![c] = k]
         /\ IF chans[k].closed
            THEN /\ chans' = chans
                 /\ held' = held
                 /\ pc' = pc
                 /\ last' = Ev("Release", c, held[c], "panic", 0)
            ELSE /\ chans' = [chans EXCEPT ![k] = SendRest(@, c, held[c])]
                 /\ IF CanSend(chans[k])
                    THEN /\ held' = [held EXCEPT ![c] = None]
                         /\ pc' = pc
                         /\ last' = Ev("Release", c, held[c], "nil", 0)
                    ELSE /\ pc' = [pc EXCEPT ![c] = "releasing"]
                         /\ held' = held
                         /\ last' = Quiet
    /\ UNCHANGED <<variant, once, cz, now, phase, maxConnections, minConnections, conns,
                   cleanupTicker, cl>>

(* ---- Cleaner ---- *)
\* the ticker fires and CloseExpiredConnections starts:
\* timeout = len(p.conns) * timePerConn; newConns := make(chan *DBConn)
CleanerTick ==
    /\ cleanupTicker = "running"
    /\ cl.pc = "sleep"
    /\ Len(chans) <= MaxTicks
    /\ chans' = Append(chans, MakeChan(0))
    /\ cl' = [pc |-> "scan", timeout |-> ChanLen(chans[conns]),
              newConns |-> Len(chans) + 1, i |-> 0, made |-> 0]
    /\ last' = Quiet
    /\ UNCHANGED <<variant, once, cz, now, phase, maxConnections, minConnections, conns, dbconns,
                   cleanupTicker, pc, held, wch>>

\* case conn := <-p.conns of the scan: a kept connection is sent on newConns,
\* which has no buffer and no receiver, so the cleaner parks on it; an expired
\* one is closed
\* on a closed channel with nothing left in it the receive yields nil and
\* conn.HeartBeat panics
ScanRecv ==
    LET e == RecvVal(chans[conns])
        w == RecvWakes(chans[conns])
    IN /\ cl.pc = "scan"
       /\ IF CanRecv(chans[conns])
          THEN /\ pc' = WokenPc(w, pc)
               /\ held' = WokenHeld(w, held)
               /\ IF ScanKeeps(e)
                  THEN /\ chans' = [chans EXCEPT ![conns] = RecvRest(@),
                                                 ![cl.newConns] = SendRest(@, Cleaner_, e)]
                       /\ cl' = [cl EXCEPT !.pc = "scanSend"]
                       /\ dbconns' = dbconns
                       /\ last' = Ev("ScanRecv", Cleaner_, e, "nil", 0)
                  ELSE /\ chans' = [chans EXCEPT ![conns] = RecvRest(@)]
                       /\ cl' = cl
                       /\ dbconns' = CloseDB(dbconns, e)
                       /\ last' = Ev("ScanRecv", Cleaner_, e, "expired", 0)
          ELSE /\ chans[conns].closed
               /\ last' = Ev("ScanRecv", Cleaner_, None, "panic", 0)
               /\ UNCHANGED <<pc, held, chans, cl, dbconns>>
       /\ UNCHANGED <<variant, once, cz, now, phase, maxConnections, minConnections, conns,
                      cleanupTicker, wch>>

\* case <-time.After(timeout) of the scan: p.conns = newConns; return.  The timer
\* is new in every iteration, so it fires when nothing was received for timeout,
\* or at once when timeout is 0.  MaintainMinConnections then starts at
\* i := len(p.conns)
ScanTimeout ==
    /\ cl.pc = "scan"
    /\ (~CanRecv(chans[conns]) /\ ~chans[conns].closed) \/ cl.timeout = 0
    /\ conns' = cl.newConns
    /\ cl' = [cl EXCEPT !.pc = "refill", !.i = ChanLen(chans[cl.newConns])]
    /\ last' = Quiet
    /\ UNCHANGED <<variant, once, cz, now, phase, maxConnections, minConnections, chans, dbconns,
                   cleanupTicker, pc, held, wch>>

\* one iteration of MaintainMinConnections: for i := len(p.conns); i < p.minConnections; i++
Refill ==
    /\ cl.pc = "refill"
    /\ IF cl.i < minConnections
       THEN \E r \in FactoryResults(now) :
              /\ Len(dbconns) >= MaxEntries => r.err
              /\ IF r.err
                 THEN /\ cl' = [cl EXCEPT !.i = @ + 1]
                      /\ last' = Quiet
                      /\ UNCHANGED <<chans, dbconns>>
                 ELSE /\ dbconns' = Append(dbconns, NewConn(r))
                      /\ IF chans[conns].closed
                         THEN /\ chans' = chans
                              /\ cl' = [cl EXCEPT !.made = @ + 1]
                              /\ last' = Ev("Refill", Cleaner_, Len(dbconns) + 1, "panic", 0)
                         ELSE /\ chans' = [chans EXCEPT
                                      ![conns] = SendRest(@, Cleaner_, Len(dbconns) + 1)]
                              /\ cl' = IF CanSend(chans[conns])
                                       THEN [cl EXCEPT !.i = @ + 1, !.made = @ + 1]
                                       ELSE [cl EXCEPT !.pc = "refillSend", !.made = @ + 1]
                              /\ last' = Quiet
       ELSE /\ cl' = [cl EXCEPT !.pc = "sleep"]
            /\ last' = Quiet
            /\ UNCHANGED <<chans, dbconns>>
    /\ UNCHANGED <<variant, once, cz, now, phase, maxConnections, minConnections, conns,
                   cleanupTicker, pc, held, wch>>

(* ---- time ---- *)
Elapse ==
    /\ now < MaxTime
    /\ now' = now + 1
    /\ last' = Quiet
    /\ UNCHANGED <<variant, once, cz, phase, maxConnections, minConnections, chans, conns, dbconns,
                   cleanupTicker, cl, pc, held, wch>>

(* ---- the pool used as documented ---- *)
Next ==
    \/ Open /\ UNCHANGED restVars
    \/ \E c \in Callers : Acquire(c) /\ UNCHANGED restVars
    \/ \E c \in Callers : AcquireWake(c) /\ UNCHANGED restVars
    \/ \E c \in Callers : AcquireTimeout(c) /\ UNCHANGED restVars
    \/ \E c \in Callers : Release(c) /\ UNCHANGED restVars
    \/ CleanerTick /\ UNCHANGED restVars
    \/ ScanRecv /\ UNCHANGED restVars
    \/ ScanTimeout /\ UNCHANGED restVars
    \/ Refill /\ UNCHANGED restVars
    \/ Elapse /\ UNCHANGED restVars

Spec == Init /\ [][Next]_vars

\* the select of a parked Acquire is taken once the timer or the channel is ready
FairSpec == Spec /\ \A c \in Callers : WF_poolVars(AcquireWake(c) \/ AcquireTimeout(c))

\* the ticker fires and the cleaner goroutine runs; a parked select is taken once
\* one of its cases is ready.  Callers are free never to call
CleanerFairSpec ==
    /\ Spec
    /\ \A c \in Callers : WF_poolVars(AcquireWake(c) \/ AcquireTimeout(c))
    /\ WF_poolVars(CleanerTick)
    /\ WF_poolVars(ScanRecv \/ ScanTimeout)
    /\ WF_poolVars(Refill)

(* ---- the pool misused: Release of a connection that was never checked out ---- *)
\* pool.Release(conn) on a conn the caller made itself, as TestRelease does
ReleaseForeignCall(c) ==
    /\ pc[c] = "idle"
    /\ held[c] = None
    /\ Len(dbconns) < MaxEntries
    /\ \E k \in ReadConns(c), ttl \in TTLs :
         LET e == Len(dbconns) + 1
         IN /\ dbconns' = Append(dbconns, [HeartBeat |-> now, TimeOut |-> ttl, closed |-> 0])
            /\ wch' = [wch EXCEPT ![c] = k]
            /\ IF chans[k].closed
               THEN /\ UNCHANGED <<chans, pc, held>>
                    /\ last' = Ev("Release", c, e, "panic", 0)
               ELSE /\ chans' = [chans EXCEPT ![k] = SendRest(@, c, e)]
                    /\ IF CanSend(chans[k])
                       THEN /\ UNCHANGED <<pc, held>>
                            /\ last' = Ev("Release", c, e, "nil", 0)
                       ELSE /\ pc' = [pc EXCEPT ![c] = "releasing"]
                            /\ held' = [held EXCEPT ![c] = e]
                            /\ last' = Quiet
    /\ UNCHANGED <<variant, once, cz, now, phase, maxConnections, minConnections, conns,
                   cleanupTicker, cl>>

ReleaseForeign(c) ==
    /\ phase = "open"
    /\ ReleaseForeignCall(c)

MisuseNext ==
    \/ Next
    \/ \E c \in Callers : ReleaseForeign(c) /\ UNCHANGED restVars

\* the ticker fires and the cleaner goroutine runs; a parked select is taken once
\* one of its cases is ready.  Callers are free never to call
MisuseFairSpec ==
    /\ Init /\ [][MisuseNext]_vars
    /\ \A c \in Callers : WF_poolVars(AcquireWake(c) \/ AcquireTimeout(c))
    /\ WF_poolVars(CleanerTick)
    /\ WF_poolVars(ScanRecv \/ ScanTimeout)
    /\ WF_poolVars(Refill)

(* ---- Close ---- *)
\* p.cleanupTicker.Stop() of dbpool's Close.  The field is nil until Open has
\* created the ticker, and Stop on a nil *time.Ticker panics.  Stop ends the
\* ticks; it does not end a Cleaner call that is running
CloseStop ==
    /\ variant = "db"
    /\ cz.pc = "idle"
    /\ cz.n < MaxCloses
    /\ IF cleanupTicker = "nil"
       THEN /\ cleanupTicker' = cleanupTicker
            /\ cz' = [cz EXCEPT !.n = @ + 1]
            /\ last' = Ev("Close", Closer_, None, "panic", 0)
       ELSE /\ cleanupTicker' = "stopped"
            /\ cz' = [cz EXCEPT !.pc = "stopped", !.n = @ + 1]
            /\ last' = Quiet
    /\ UNCHANGED <<variant, once, now, phase, maxConnections, minConnections, chans,
                   conns, dbconns, cl, pc, held, wch>>

\* close(p.conns) by the goroutine in Close, which goes on as z: close of a
\* closed channel panics, and so does a sender parked on the channel
CloseConns(z) ==
    LET ch == chans[conns]
    IN /\ cz' = z
       /\ IF ch.closed
          THEN /\ chans' = chans
               /\ last' = Ev("Close", Closer_, None, "panic", 0)
          ELSE /\ chans' = [chans EXCEPT ![conns].closed = TRUE]
               /\ last' = IF Len(ch.sendq) > 0
                          THEN Ev("Send", Head(ch.sendq).who, Head(ch.sendq).conn, "panic", 0)
                          ELSE Quiet

\* once.Do(func() { close(p.conns) }) of dbpool's Close: once is a variable of the
\* package, so the function runs in the first Close of the process only
CloseOnce ==
    /\ variant = "db"
    /\ cz.pc = "stopped"
    /\ IF once
       THEN /\ cz' = [cz EXCEPT !.pc = "range", !.ch = conns]
            /\ last' = Quiet
            /\ UNCHANGED <<chans, once>>
       ELSE /\ CloseConns([cz EXCEPT !.pc = "range", !.ch = conns])
            /\ once' = TRUE
    /\ UNCHANGED <<variant, now, phase, maxConnections, minConnections, conns,
                   dbconns, cleanupTicker, cl, pc, held, wch>>

\* close(pool.conns) of redispool's Close, which has no guard and does not stop
\* the ticker
CloseRedis ==
    /\ variant = "redis"
    /\ cz.pc = "idle"
    /\ cz.n < MaxCloses
    /\ CloseConns([pc |-> "range", ch |-> conns, n |-> cz.n + 1])
    /\ UNCHANGED <<variant, once, now, phase, maxConnections, minConnections, conns,
                   dbconns, cleanupTicker, cl, pc, held, wch>>

\* for conn := range p.conns { conn.DB.Close() }: the range expression is read
\* once, after the read of close(p.conns); every iteration receives, the loop
\* ends when the channel is closed and empty, and it waits on an open, empty one
CloseDrain ==
    /\ cz.pc \in {"range", "drain"}
    /\ \E k \in (IF cz.pc = "range" THEN cz.ch..conns ELSE {cz.ch}) :
         LET e == RecvVal(chans[k])
             w == RecvWakes(chans[k])
         IN IF CanRecv(chans[k])
            THEN /\ chans' = [chans EXCEPT ![k] = RecvRest(@)]
                 /\ dbconns' = CloseDB(dbconns, e)
                 /\ pc' = WokenPc(w, pc)
                 /\ held' = WokenHeld(w, held)
                 /\ cl' = WokenCl(w, cl)
                 /\ cz' = [cz EXCEPT !.pc = "drain", !.ch = k]
                 /\ last' = Ev("Drain", Closer_, e, "nil", cz.n)
            ELSE /\ chans[k].closed \/ cz.pc = "range"
                 /\ cz' = [cz EXCEPT !.pc = IF chans[k].closed THEN "idle" ELSE "drain",
                                     !.ch = k]
                 /\ last' = IF chans[k].closed
                            THEN Ev("Close", Closer_, None, "nil", cz.n)
                            ELSE Quiet
                 /\ UNCHANGED <<chans, dbconns, pc, held, cl>>
    /\ UNCHANGED <<variant, once, now, phase, maxConnections, minConnections, conns,
                   cleanupTicker, wch>>

\* Close of another ConnectionPool of the process runs once.Do first
CloseOther ==
    /\ variant = "db"
    /\ ~once
    /\ once' = TRUE
    /\ last' = Quiet
    /\ UNCHANGED <<variant, cz, now, phase, maxConnections, minConnections, chans,
                   conns, dbconns, cleanupTicker, cl, pc, held, wch>>

(* ---- calls on a pool that was not opened ---- *)
AcquireEarly(c) ==
    /\ phase = "new"
    /\ AcquireCall(c)

\* Release of a connection the caller made itself
ReleaseEarly(c) ==
    /\ phase = "new"
    /\ ReleaseForeignCall(c)

(* ---- the whole life of a pool of either package ---- *)
\* The clock stands still here: a connection whose HeartBeat the factory left zero
\* is expired and a stamped one is live, and nothing in Close reads the time.
LifeInit == (\E v \in Variants : New(v)) /\ RestStart

\* a panic no goroutine recovers ends the process
Running == last.err # "panic"

LifeNext ==
    \/ Running /\ Open /\ UNCHANGED restVars
    \/ Running /\ \E c \in Callers : Acquire(c) /\ UNCHANGED restVars
    \/ Running /\ \E c \in Callers : AcquireWake(c) /\ UNCHANGED restVars
    \/ Running /\ \E c \in Callers : AcquireTimeout(c) /\ UNCHANGED restVars
    \/ Running /\ \E c \in Callers : Release(c) /\ UNCHANGED restVars
    \/ Running /\ CleanerTick /\ UNCHANGED restVars
    \/ Running /\ ScanRecv /\ UNCHANGED restVars
    \/ Running /\ ScanTimeout /\ UNCHANGED restVars
    \/ Running /\ Refill /\ UNCHANGED restVars
    \/ Running /\ \E c \in Callers : AcquireEarly(c) /\ UNCHANGED restVars
    \/ Running /\ \E c \in Callers : ReleaseEarly(c) /\ UNCHANGED restVars
    \/ Running /\ CloseStop /\ UNCHANGED restVars
    \/ Running /\ CloseOnce /\ UNCHANGED restVars
    \/ Running /\ CloseRedis /\ UNCHANGED restVars
    \/ Running /\ CloseDrain /\ UNCHANGED restVars
    \/ Running /\ CloseOther /\ UNCHANGED restVars

LifeSpec == LifeInit /\ [][LifeNext]_vars

(* ---- helpers of the properties ---- *)
Created == 1..Len(dbconns)
InSeq(e, q) == \E i \in 1..Len(q) : q[i] = e
Occurrences(e, q) == Cardinality({i \in 1..Len(q) : q[i] = e})
Holders(e) == {c \in Callers : held[c] = e}
CheckedOut == {c \in Callers : held[c] # None}
\* e can be received from channel k: it is buffered there or offered by a parked sender
Offered(e, k) == InSeq(e, chans[k].buf) \/ \E i \in 1..Len(chans[k].sendq) : chans[k].sendq[i].conn = e
ExpiryOf(e) == dbconns[e].HeartBeat + dbconns[e].TimeOut

(* ---- C1 ---- *)
\* C1: no connection is held by two callers at once, and a connection a caller
\* holds cannot be received from any channel of the pool by another Acquire
\* until its holder calls Release.
NoDoubleHandout ==
    /\ \A c1, c2 \in Callers : c1 # c2 /\ held[c1] # None => held[c1] # held[c2]
    /\ \A c \in Callers : held[c] # None /\ pc[c] # "releasing" =>
          \A k \in 1..Len(chans) : ~Offered(held[c], k)

\* two callers hold a connection at the same time, the second just handed out
TwoHolders ==
    /\ last.op = "Acquire" /\ last.err = "nil"
    /\ \A c \in Callers : held[c] # None

(* ---- C2 ---- *)
\* C2: the number of connections checked out at the same time never exceeds
\* maxConnections.
CapacityInvariant == Cardinality(CheckedOut) <= maxConnections

(* ---- C3 ---- *)
\* C3: while the pool is open every connection created and not closed is in
\* exactly one place: once in the buffer of p.conns, or held by exactly one caller.
EntryInOnePlace ==
    phase = "open" =>
        \A e \in Created : dbconns[e].closed = 0 =>
            Occurrences(e, chans[conns].buf) + Cardinality(Holders(e)) = 1

(* ---- C4 ---- *)
\* C4: the capacity of the channel in p.conns is maxConnections in every state.
StoreCapacityFixed == chans[conns].cap = maxConnections

(* ---- C5 ---- *)
\* C5: an Acquire that receives an expired connection closes it, returns an error
\* and no connection, puts nothing back and creates nothing, so that len(p.conns)
\* drops by exactly one.
AcquireExpiredEffect ==
    [][(last'.op = "Acquire" /\ last'.err = "expired") =>
         /\ dbconns'[last'.got].closed = dbconns[last'.got].closed + 1
         /\ held'[last'.who] = None
         /\ \A k \in 1..Len(chans') : ~InSeq(last'.got, chans'[k].buf)
         /\ Len(dbconns') = Len(dbconns)
         /\ ChanLen(chans'[conns']) = ChanLen(chans[conns]) - 1]_vars

(* ---- C6 ---- *)
\* C6 as stated: the connection Acquire or the scan received is treated as expired
\* exactly when now >= HeartBeat + TimeOut.
ExpiredIffReached ==
    (last.op \in {"Acquire", "ScanRecv"} /\ last.got # None) =>
        (last.err = "expired" <=> now >= ExpiryOf(last.got))

\* C6 amended: the connection Acquire or the scan received is treated as expired
\* exactly when now > HeartBeat + TimeOut; at now = HeartBeat + TimeOut it is live.
ExpiredIffPassed ==
    (last.op \in {"Acquire", "ScanRecv"} /\ last.got # None) =>
        (last.err = "expired" <=> now > ExpiryOf(last.got))

\* Acquire received a connection exactly at the boundary and handed it out
AcquiredAtBoundary ==
    /\ last.op = "Acquire" /\ last.got # None
    /\ now = ExpiryOf(last.got)
    /\ held[last.who] = last.got

(* ---- C7 ---- *)
\* C7: a caller parked in Acquire always leaves it, and an Acquire that returns
\* the timeout error found nothing to receive, returns no connection and changes
\* neither the channels nor any connection.
AcquireReturns ==
    /\ \A c \in Callers : (pc[c] = "acquiring") ~> (pc[c] = "idle")
    /\ [][(last'.op = "Acquire" /\ last'.err = "timeout") =>
            /\ ~CanRecv(chans[wch[last'.who]])
            /\ held'[last'.who] = None
            /\ chans' = chans /\ conns' = conns /\ dbconns' = dbconns]_vars

\* an Acquire returned the timeout error
AcquireTimedOut == last.op = "Acquire" /\ last.err = "timeout"

(* ---- C8 ---- *)
\* C8: a caller parked in Release on a full channel of capacity maxConnections
\* always returns from Release.
ReleaseReturns ==
    \A c \in Callers :
        (pc[c] = "releasing" /\ chans[wch[c]].cap = maxConnections) ~> (pc[c] = "idle")

(* ---- C9 ---- *)
\* C9: when a caller's Release of the connection it holds returns, the connection's
\* HeartBeat is the current time, it is the new last element of p.conns, whose
\* length rose by one, and no other connection changed.
ReleaseEffect ==
    [][\A c \in Callers : (held[c] # None /\ held'[c] = None) =>
         /\ dbconns'[held[c]].HeartBeat = now
         /\ chans'[conns'].buf = Append(chans[conns].buf, held[c])
         /\ \A e \in Created : e # held[c] => dbconns'[e] = dbconns[e]]_vars

(* ---- C10 ---- *)
\* C10: an Open in which every OpenConnection call succeeded made exactly
\* maxConnections calls, left maxConnections connections in p.conns, started the
\* cleanup ticker and returned nil.
OpenFillsPool ==
    (last.op = "Open" /\ last.n = Len(dbconns)) =>
        /\ last.err = "nil"
        /\ last.n = maxConnections
        /\ ChanLen(chans[conns]) = maxConnections
        /\ \A e \in Created : Occurrences(e, chans[conns].buf) = 1
        /\ cleanupTicker = "running"
        /\ phase = "open"

\* Open returned nil on a pool of the largest size
OpenSucceeded == last.op = "Open" /\ last.err = "nil" /\ maxConnections = MaxSize

(* ---- C11 ---- *)
\* the first call of outs that fails
FirstFailure(outs) ==
    CHOOSE i \in DOMAIN outs : outs[i].err /\ \A j \in 1..(i - 1) : ~outs[j].err

\* C11: when the i-th OpenConnection call of Open fails, Open returns the error
\* after exactly i calls, with the i-1 connections created before still in
\* p.conns, and neither the ticker nor the cleaner goroutine is started.
OpenFailsFast ==
    /\ phase = "new" =>
          \A outs \in [1..maxConnections -> FactoryResults(now)] :
              (\E i \in DOMAIN outs : outs[i].err) =>
                  LET r == OpenLoop(0, outs, [calls |-> 0, err |-> "nil", db |-> dbconns,
                                              ch |-> chans[conns]])
                      f == FirstFailure(outs)
                  IN /\ r.err = "factory"
                     /\ r.calls = f
                     /\ Len(r.db) = Len(dbconns) + f - 1
                     /\ r.ch.buf = chans[conns].buf \o [j \in 1..(f - 1) |-> Len(dbconns) + j]
    /\ (last.op = "Open" /\ last.err # "nil") =>
          /\ phase = "failed"
          /\ Len(dbconns) = last.n - 1
          /\ chans[conns].buf = [j \in 1..(last.n - 1) |-> j]
          /\ cleanupTicker = "nil"
          /\ cl.pc = "sleep"

\* Open failed at its second call and left the first connection in p.conns
OpenFailedSecond ==
    /\ last.op = "Open" /\ last.err = "factory" /\ last.n = 2
    /\ ChanLen(chans[conns]) = 1

(* ---- C12 ---- *)
\* C12: every connection Open or MaintainMinConnections creates and sends to
\* p.conns has a HeartBeat that is not zero (the time of its creation when the
\* factory left it unset), so that it is not expired in the state the step leaves.
FreshEntryStamped ==
    [][\A e \in (1..Len(dbconns')) \ (1..Len(dbconns)) :
          /\ dbconns'[e].HeartBeat # ZeroTime
          /\ ~Before(Add(dbconns'[e].HeartBeat, dbconns'[e].TimeOut), now')]_vars

(* ---- C13 ---- *)
\* a step of the goroutine that is in Close
CloseStep == cz' # cz \/ last'.op = "Drain"

\* C13: a step of the second or a later Close call on an opened pool does not
\* panic, closes no connection and leaves the channels, the connections and the
\* ticker as they were.
CloseIdempotent ==
    [][(phase = "open" /\ CloseStep /\ cz'.n >= 2) =>
          /\ last'.err # "panic"
          /\ chans' = chans
          /\ dbconns' = dbconns
          /\ cleanupTicker' = cleanupTicker]_vars

(* ---- C14 ---- *)
\* C14: while the first Close of an opened pool runs, no goroutine panics, also
\* when callers are in Acquire or Release; and when it returns, p.conns is closed
\* and empty, every connection Close received was closed, and no connection was
\* closed twice.
CloseDrainsStore ==
    (phase = "open" /\ cz.n = 1) =>
        /\ cz.pc # "idle" => last.err # "panic"
        /\ (last.op = "Drain" /\ last.n = 1) => dbconns[last.got].closed = 1
        /\ (last.op = "Close" /\ last.err = "nil") =>
              /\ chans[conns].closed
              /\ ~CanRecv(chans[conns])
              /\ \A e \in Created : dbconns[e].closed <= 1

(* ---- C15 ---- *)
\* Close of an opened pool is past close(p.conns): it drains or has returned
Draining == phase = "open" /\ cz.n >= 1 /\ cz.pc # "stopped"

\* C15: once Close drains, no step of the cleaner closes an expired connection,
\* assigns a new channel to p.conns or creates a connection, also when its
\* Cleaner call was running before Close was called.
MaintenanceStopped ==
    [][Draining =>
          /\ ~(last'.op = "ScanRecv" /\ last'.err = "expired")
          /\ conns' = conns
          /\ Len(dbconns') = Len(dbconns)]_vars

(* ---- C16 ---- *)
\* C16: a caller that is parked in Acquire on an opened pool, on a channel that
\* is empty and that Close has closed, leaves Acquire with an error and no
\* connection, without a panic.
WaitingAcquireUnblocked ==
    [][\A c \in Callers :
          (phase = "open" /\ pc[c] = "acquiring" /\ chans[wch[c]].closed
             /\ ~CanRecv(chans[wch[c]]) /\ pc'[c] # "acquiring") =>
              /\ last'.op = "Acquire" /\ last'.who = c
              /\ last'.err \notin {"nil", "panic"}
              /\ last'.got = None
              /\ held'[c] = None]_vars

(* ---- C17 ---- *)
\* a Close call on the opened pool has returned and no other is running
Closed == phase = "open" /\ cz.n >= 1 /\ cz.pc = "idle"

\* C17: an Acquire that a caller issues after Close has returned returns an error
\* and no connection, hands nothing out and does not panic.
AcquireAfterClose ==
    [][(Closed /\ last'.op = "Acquire" /\ pc[last'.who] = "idle") =>
          /\ last'.err \notin {"nil", "panic"}
          /\ held'[last'.who] = None]_vars

(* ---- C18 ---- *)
\* the step is caller c's call of Release for the connection it holds
ReleaseStep(c) ==
    /\ pc[c] = "idle"
    /\ held[c] # None
    /\ (last'.op = "Release" /\ last'.who = c) \/ pc'[c] = "releasing"

\* C18: a Release of a checked-out connection that a caller issues after Close has
\* returned does not panic, does not park, and leaves the connection in no
\* channel of the pool.
ReleaseAfterClose ==
    [][\A c \in Callers : (Closed /\ ReleaseStep(c)) =>
          /\ last'.err # "panic"
          /\ pc'[c] # "releasing"
          /\ \A k \in 1..Len(chans') : ~InSeq(held[c], chans'[k].buf)]_vars

(* ---- C19 ---- *)
\* C19: a step on a pool that New has made and Open has not filled, other than
\* Open itself, does not panic; Acquire and Release return an error there, and
\* p.conns stays empty.
UninitializedRejects ==
    [][(phase = "new" /\ phase' = "new") =>
          /\ last'.err # "panic"
          /\ last'.op \in {"Acquire", "Release"} => last'.err # "nil"
          /\ ~CanRecv(chans'[conns'])]_vars

(* ---- C20 ---- *)
\* C20: the step of the first Close of an opened pool that passes its close
\* statement leaves the pool's own p.conns closed, whether or not a Close of
\* another pool of the process ran before.
CloseGuardPerPool ==
    [][(phase = "open" /\ cz'.n = 1 /\ cz.pc # "range" /\ cz'.pc = "range") =>
          chans'[conns'].closed]_vars

(* ---- C21 ---- *)
Min(a, b) == IF a <= b THEN a ELSE b

\* no caller holds a connection or is inside Acquire or Release
AtRest == \A c \in Callers : pc[c] = "idle" /\ held[c] = None

\* the connections in the buffer of p.conns that are not expired
LiveIdle ==
    Cardinality({i \in 1..ChanLen(chans[conns]) : ~isConnectionExpired(chans[conns].buf[i])})

\* C21: a Cleaner call that starts on an open pool at rest whose idle connections
\* are all expired returns, unless callers come in, and when it returns p.conns
\* holds at least min(minConnections, OpenConnection calls that succeeded in it)
\* connections that are not expired.
FloorRestored ==
    (/\ phase = "open" /\ cl.pc = "scan" /\ AtRest
     /\ \A i \in 1..ChanLen(chans[conns]) : isConnectionExpired(chans[conns].buf[i]))
    ~> (\/ ~AtRest
        \/ cl.pc = "sleep" /\ LiveIdle >= Min(minConnections, cl.made))

(* ---- C30 ---- *)
\* connection e exists and is expired
Expired(e) == IF e \in Created THEN isConnectionExpired(e) ELSE FALSE

\* the scan of CloseExpiredConnections is over
ScanDone == cl.pc \in {"refill", "refillSend", "sleep"}

\* C30: with no caller coming in, a connection that is idle and not expired when
\* CloseExpiredConnections scans is in p.conns again when the scan is over, while
\* it has not expired; and a connection the scan finds expired is closed exactly
\* once and is in no channel afterwards.
EvictionPassKeepsLive ==
    /\ \A e \in 1..MaxEntries :
          (/\ phase = "open" /\ cl.pc = "scan" /\ AtRest
           /\ InSeq(e, chans[conns].buf) /\ ~Expired(e))
          ~> (\/ ~AtRest
              \/ Expired(e)
              \/ ScanDone /\ InSeq(e, chans[conns].buf))
    /\ [][(last'.op = "ScanRecv" /\ last'.err = "expired") =>
             /\ dbconns'[last'.got].closed = 1
             /\ \A k \in 1..Len(chans') :
                   /\ ~InSeq(last'.got, chans'[k].buf)
                   /\ \A i \in 1..Len(chans'[k].sendq) : chans'[k].sendq[i].conn # last'.got]_vars

(***************************************************************************)
(* rate-limiting/token_bucket.  tb.tokens carries struct{} values, so the  *)
(* channel is its length and whether it was closed.  tb.available is read  *)
(* and written by the filler goroutine and by every caller without a lock: *)
(* tb.available++ and tb.available-- are a load and a store, and any other *)
(* goroutine may run between the two.                                      *)
(* Lost updates let tb.available drift without limit; the model follows   *)
(* it MaxDrift below 0 and MaxDrift above the capacity.                    *)
(***************************************************************************)
Buckets == 1..Len(tb)
Filler_ == NumCallers + 1
TbEv(op, who, b, err) == [op |-> op, who |-> who, b |-> b, err |-> err]

\* a panic no goroutine recovers ends the process
TbRunning == tlast.err # "panic"

\* the caller is at position p of a call on bucket b
At(c, p, b) == [tcall EXCEPT ![c] = [pc |-> p, b |-> b, reg |-> 0]]
Back(c) == [tcall EXCEPT ![c] = [pc |-> "idle", b |-> 0, reg |-> 0]]

\* tb := New(rate, capacity): available 0, an empty tokens channel, the filler started
NewBucket(capacity) ==
    /\ Len(tb) < NumBuckets
    /\ tb' = Append(tb, [capacity |-> capacity, available |-> 0, tokens |-> 0,
                         tokensClosed |-> FALSE, closed |-> FALSE,
                         closeCalled |-> FALSE, closeReturned |-> FALSE])
    /\ filler' = Append(filler, [pc |-> "select", reg |-> 0])
    /\ tlast' = TbEv("New", Nobody, Len(tb) + 1, "nil")
    /\ UNCHANGED <<atomicClosedState, atomicTokensState, tcall>>

(* ---- startFillingTokens and fillToken ---- *)
\* case <-time.After(fillInterval): tb.fillToken(), up to if tb.available < tb.capacity
FillerTick(b) ==
    /\ filler[b].pc = "select"
    /\ filler' = [filler EXCEPT ![b].pc = IF tb[b].available < tb[b].capacity THEN "send" ELSE "select"]
    /\ tlast' = TbQuiet
    /\ UNCHANGED <<atomicClosedState, atomicTokensState, tb, tcall>>

\* select { case tb.tokens <- struct{}{}: ... default: }; a send on a closed channel panics
FillSend(b) ==
    /\ filler[b].pc = "send"
    /\ IF tb[b].tokensClosed
       THEN /\ tlast' = TbEv("fillToken", Filler_, b, "panic")
            /\ UNCHANGED <<tb, filler>>
       ELSE /\ tlast' = TbQuiet
            /\ IF tb[b].tokens < tb[b].capacity
               THEN /\ tb' = [tb EXCEPT ![b].tokens = @ + 1]
                    /\ filler' = [filler EXCEPT ![b].pc = "load"]
               ELSE /\ filler' = [filler EXCEPT ![b].pc = "select"]
                    /\ UNCHANGED tb
    /\ UNCHANGED <<atomicClosedState, atomicTokensState, tcall>>

\* tb.available++: the load
FillLoad(b) ==
    /\ filler[b].pc = "load"
    /\ filler' = [filler EXCEPT ![b] = [pc |-> "store", reg |-> tb[b].available]]
    /\ tlast' = TbQuiet
    /\ UNCHANGED <<atomicClosedState, atomicTokensState, tb, tcall>>

\* tb.available++: the store
FillStore(b) ==
    /\ filler[b].pc = "store"
    /\ filler[b].reg + 1 <= tb[b].capacity + MaxDrift
    /\ tb' = [tb EXCEPT ![b].available = filler[b].reg + 1]
    /\ filler' = [filler EXCEPT ![b] = [pc |-> "select", reg |-> 0]]
    /\ tlast' = TbEv("fillToken", Filler_, b, "nil")
    /\ UNCHANGED <<atomicClosedState, atomicTokensState, tcall>>

\* case <-tb.closed: return
FillerExit(b) ==
    /\ filler[b].pc = "select"
    /\ tb[b].closed
    /\ filler' = [filler EXCEPT ![b].pc = "exited"]
    /\ tlast' = TbQuiet
    /\ UNCHANGED <<atomicClosedState, atomicTokensState, tb, tcall>>

(* ---- Take ---- *)
\* if tb.available <= 0 { return errors.New("no tokens available") }
Take(c, b) ==
    /\ tcall[c].pc = "idle"
    /\ IF tb[b].available <= 0
       THEN /\ tlast' = TbEv("Take", c, b, "no tokens available")
            /\ UNCHANGED tcall
       ELSE /\ tlast' = TbQuiet
            /\ tcall' = At(c, "takeRecv", b)
    /\ UNCHANGED <<atomicClosedState, atomicTokensState, tb, filler>>

\* <-tb.tokens: waits for a token; a closed channel yields its values and then zero values
TakeRecv(c) ==
    /\ tcall[c].pc = "takeRecv"
    /\ tb[tcall[c].b].tokens > 0 \/ tb[tcall[c].b].tokensClosed
    /\ tb' = [tb EXCEPT ![tcall[c].b].tokens = IF @ > 0 THEN @ - 1 ELSE 0]
    /\ tcall' = [tcall EXCEPT ![c].pc = "takeLoad"]
    /\ tlast' = TbQuiet
    /\ UNCHANGED <<atomicClosedState, atomicTokensState, filler>>

\* tb.available--: the load
TakeLoad(c) ==
    /\ tcall[c].pc = "takeLoad"
    /\ tcall' = [tcall EXCEPT ![c].pc = "takeStore", ![c].reg = tb[tcall[c].b].available]
    /\ tlast' = TbQuiet
    /\ UNCHANGED <<atomicClosedState, atomicTokensState, tb, filler>>

\* tb.available--: the store; return nil
TakeStore(c) ==
    /\ tcall[c].pc = "takeStore"
    /\ tcall[c].reg - 1 >= -MaxDrift
    /\ tb' = [tb EXCEPT ![tcall[c].b].available = tcall[c].reg - 1]
    /\ tcall' = Back(c)
    /\ tlast' = TbEv("Take", c, tcall[c].b, "nil")
    /\ UNCHANGED <<atomicClosedState, atomicTokensState, filler>>

(* ---- Put ---- *)
\* if tb.available >= tb.capacity { return errors.New("available exceeds capacity") }
Put(c, b) ==
    /\ tcall[c].pc = "idle"
    /\ IF tb[b].available >= tb[b].capacity
       THEN /\ tlast' = TbEv("Put", c, b, "available exceeds capacity")
            /\ UNCHANGED tcall
       ELSE /\ tlast' = TbQuiet
            /\ tcall' = At(c, "putRecv", b)
    /\ UNCHANGED <<atomicClosedState, atomicTokensState, tb, filler>>

\* select { case <-tb.tokens: case _, ok := <-tb.closed: if !ok { return error } }
PutRecv(c) ==
    /\ tcall[c].pc = "putRecv"
    /\ \/ /\ tb[tcall[c].b].tokens > 0 \/ tb[tcall[c].b].tokensClosed
          /\ tb' = [tb EXCEPT ![tcall[c].b].tokens = IF @ > 0 THEN @ - 1 ELSE 0]
          /\ tcall' = [tcall EXCEPT ![c].pc = "putSend"]
          /\ tlast' = TbQuiet
       \/ /\ tb[tcall[c].b].closed
          /\ tcall' = Back(c)
          /\ tlast' = TbEv("Put", c, tcall[c].b, "token bucket closed")
          /\ UNCHANGED tb
    /\ UNCHANGED <<atomicClosedState, atomicTokensState, filler>>

\* select { case tb.tokens <- struct{}{}: default: return errors.New("fail to send token") }
PutSend(c) ==
    /\ tcall[c].pc = "putSend"
    /\ IF tb[tcall[c].b].tokensClosed
       THEN /\ tlast' = TbEv("Put", c, tcall[c].b, "panic")
            /\ UNCHANGED <<tb, tcall>>
       ELSE IF tb[tcall[c].b].tokens < tb[tcall[c].b].capacity
            THEN /\ tb' = [tb EXCEPT ![tcall[c].b].tokens = @ + 1]
                 /\ tcall' = [tcall EXCEPT ![c].pc = "putLoad"]
                 /\ tlast' = TbQuiet
            ELSE /\ tcall' = Back(c)
                 /\ tlast' = TbEv("Put", c, tcall[c].b, "fail to send token")
                 /\ UNCHANGED tb
    /\ UNCHANGED <<atomicClosedState, atomicTokensState, filler>>

\* tb.available++: the load
PutLoad(c) ==
    /\ tcall[c].pc = "putLoad"
    /\ tcall' = [tcall EXCEPT ![c].pc = "putStore", ![c].reg = tb[tcall[c].b].available]
    /\ tlast' = TbQuiet
    /\ UNCHANGED <<atomicClosedState, atomicTokensState, tb, filler>>

\* tb.available++: the store; return nil
PutStore(c) ==
    /\ tcall[c].pc = "putStore"
    /\ tcall[c].reg + 1 <= tb[tcall[c].b].capacity + MaxDrift
    /\ tb' = [tb EXCEPT ![tcall[c].b].available = tcall[c].reg + 1]
    /\ tcall' = Back(c)
    /\ tlast' = TbEv("Put", c, tcall[c].b, "nil")
    /\ UNCHANGED <<atomicClosedState, atomicTokensState, filler>>

(* ---- Wait ---- *)
\* <-tb.tokens
Wait(c, b) ==
    /\ tcall[c].pc = "idle"
    /\ tcall' = At(c, "waitRecv", b)
    /\ tlast' = TbQuiet
    /\ UNCHANGED <<atomicClosedState, atomicTokensState, tb, filler>>

WaitRecv(c) ==
    /\ tcall[c].pc = "waitRecv"
    /\ tb[tcall[c].b].tokens > 0 \/ tb[tcall[c].b].tokensClosed
    /\ tb' = [tb EXCEPT ![tcall[c].b].tokens = IF @ > 0 THEN @ - 1 ELSE 0]
    /\ tcall' = Back(c)
    /\ tlast' = TbEv("Wait", c, tcall[c].b, "nil")
    /\ UNCHANGED <<atomicClosedState, atomicTokensState, filler>>

(* ---- Close ---- *)
\* tb.atomicClose(tb.closed, &atomicClosedState): close(ch) if the CAS from 0 to 1 succeeds
TbClose(c, b) ==
    /\ tcall[c].pc = "idle"
    /\ atomicClosedState' = 1
    /\ tb' = [tb EXCEPT ![b].closed = @ \/ atomicClosedState = 0, ![b].closeCalled = TRUE]
    /\ tcall' = At(c, "closeTokens", b)
    /\ tlast' = TbQuiet
    /\ UNCHANGED <<atomicTokensState, filler>>

\* tb.atomicClose(tb.tokens, &atomicTokensState)
TbCloseTokens(c) ==
    /\ tcall[c].pc = "closeTokens"
    /\ atomicTokensState' = 1
    /\ tb' = [tb EXCEPT ![tcall[c].b].tokensClosed = @ \/ atomicTokensState = 0]
    /\ tcall' = [tcall EXCEPT ![c].pc = "closeZero"]
    /\ tlast' = TbQuiet
    /\ UNCHANGED <<atomicClosedState, filler>>

\* tb.available = 0; Close returns
TbCloseZero(c) ==
    /\ tcall[c].pc = "closeZero"
    /\ tb' = [tb EXCEPT ![tcall[c].b].available = 0, ![tcall[c].b].closeReturned = TRUE]
    /\ tcall' = Back(c)
    /\ tlast' = TbEv("Close", c, tcall[c].b, "nil")
    /\ UNCHANGED <<atomicClosedState, atomicTokensState, filler>>

\* the pool of a process that does not use it
PoolUnused == New("db") /\ maxConnections = 1 /\ minConnections = 0

TbInit ==
    /\ PoolUnused
    /\ \E earlier \in BOOLEAN : TbStart(earlier)
    /\ NewProducer(1, 1)
    /\ clock = ZeroTime + 1
    /\ NewLeakyBucket(1, 1)
    /\ NewCounter(1)
    /\ LaterStart

otherThanTb == <<poolVars, prodVars, clock, lbVars, ctrVars, consVars, swVars>>

TbNext ==
    \/ TbRunning /\ \E n \in 1..MaxCapacity : NewBucket(n) /\ UNCHANGED otherThanTb
    \/ TbRunning /\ \E b \in Buckets : FillerTick(b) /\ UNCHANGED otherThanTb
    \/ TbRunning /\ \E b \in Buckets : FillSend(b) /\ UNCHANGED otherThanTb
    \/ TbRunning /\ \E b \in Buckets : FillLoad(b) /\ UNCHANGED otherThanTb
    \/ TbRunning /\ \E b \in Buckets : FillStore(b) /\ UNCHANGED otherThanTb
    \/ TbRunning /\ \E b \in Buckets : FillerExit(b) /\ UNCHANGED otherThanTb
    \/ TbRunning /\ \E c \in Callers, b \in Buckets : Take(c, b) /\ UNCHANGED otherThanTb
    \/ TbRunning /\ \E c \in Callers : TakeRecv(c) /\ UNCHANGED otherThanTb
    \/ TbRunning /\ \E c \in Callers : TakeLoad(c) /\ UNCHANGED otherThanTb
    \/ TbRunning /\ \E c \in Callers : TakeStore(c) /\ UNCHANGED otherThanTb
    \/ TbRunning /\ \E c \in Callers, b \in Buckets : Put(c, b) /\ UNCHANGED otherThanTb
    \/ TbRunning /\ \E c \in Callers : PutRecv(c) /\ UNCHANGED otherThanTb
    \/ TbRunning /\ \E c \in Callers : PutSend(c) /\ UNCHANGED otherThanTb
    \/ TbRunning /\ \E c \in Callers : PutLoad(c) /\ UNCHANGED otherThanTb
    \/ TbRunning /\ \E c \in Callers : PutStore(c) /\ UNCHANGED otherThanTb
    \/ TbRunning /\ \E c \in Callers, b \in Buckets : Wait(c, b) /\ UNCHANGED otherThanTb
    \/ TbRunning /\ \E c \in Callers : WaitRecv(c) /\ UNCHANGED otherThanTb
    \/ TbRunning /\ \E c \in Callers, b \in Buckets : TbClose(c, b) /\ UNCHANGED otherThanTb
    \/ TbRunning /\ \E c \in Callers : TbCloseTokens(c) /\ UNCHANGED otherThanTb
    \/ TbRunning /\ \E c \in Callers : TbCloseZero(c) /\ UNCHANGED otherThanTb

TbSpec == TbInit /\ [][TbNext]_vars

\* every goroutine that can run does; a select with a ready case is taken, and a
\* case that is ready again and again is chosen at some point
TbFairSpec ==
    /\ TbSpec
    /\ \A b \in 1..NumBuckets :
          /\ WF_tbVars(TbRunning /\ b \in Buckets /\ (FillerTick(b) \/ FillerExit(b)))
          /\ SF_tbVars(TbRunning /\ b \in Buckets /\ FillerExit(b))
          /\ WF_tbVars(TbRunning /\ b \in Buckets /\ (FillSend(b) \/ FillLoad(b) \/ FillStore(b)))
    /\ \A c \in Callers :
          WF_tbVars(TbRunning /\ (\/ TakeRecv(c) \/ TakeLoad(c) \/ TakeStore(c)
                                  \/ PutRecv(c) \/ PutSend(c) \/ PutLoad(c) \/ PutStore(c)
                                  \/ WaitRecv(c)
                                  \/ TbCloseTokens(c) \/ TbCloseZero(c)))

(***************************************************************************)
(* producer-consumer: Producer.  Items are numbered in the order they are   *)
(* made, None is the nil interface value.  The goroutine that receives     *)
(* from out takes a value whenever one is buffered.                        *)
(***************************************************************************)
Injector_ == NumProcs + 1
Tester_ == NumProcs + 2
PEv(op, who, data, res) == [op |-> op, who |-> who, data |-> data, res |-> res]

\* a panic no goroutine recovers ends the process
PRunning == plast.res # "panic"

\* select { case <-out: return false; case out <- data: return true; default: return false }
\* The cases that are ready, each with the channel it leaves: a receive is ready
\* when a value is buffered or the channel is closed, a send when there is room or
\* the channel is closed, and then it panics.  default runs when neither is.
tryWrite(ch, data) ==
    LET recv == IF Len(ch.buf) > 0
                THEN {[ch |-> [ch EXCEPT !.buf = Tail(@)], res |-> "false", how |-> "recv"]}
                ELSE IF ch.closed THEN {[ch |-> ch, res |-> "false", how |-> "recv"]} ELSE {}
        send == IF ch.closed
                THEN {[ch |-> ch, res |-> "panic", how |-> "send"]}
                ELSE IF Len(ch.buf) < ch.cap
                     THEN {[ch |-> [ch EXCEPT !.buf = Append(@, data)], res |-> "true", how |-> "send"]}
                     ELSE {}
    IN  IF recv \cup send = {}
        THEN {[ch |-> ch, res |-> "false", how |-> "default"]}
        ELSE recv \cup send

\* go p.Run(ctx): NumProcs goroutines run runProc
Run ==
    /\ \A w \in 1..NumProcs : procs[w].pc = "off"
    /\ procs' = [w \in 1..NumProcs |-> [pc |-> "loop", data |-> None]]
    /\ plast' = PQuiet
    /\ UNCHANGED <<Buffer, out, ctxDone, inj, produced>>

\* runProc: if p.isCancelled(ctx) { return }; data, err := p.ProduceFunc(): an error
\* is handled and the loop continues, nil data ends the goroutine
runProc(w) ==
    /\ procs[w].pc = "loop"
    /\ IF ctxDone
       THEN /\ procs' = [procs EXCEPT ![w].pc = "exited"]
            /\ plast' = PEv("runProc", w, None, "cancelled")
            /\ UNCHANGED produced
       ELSE \/ /\ produced < MaxItems
               /\ produced' = produced + 1
               /\ procs' = [procs EXCEPT ![w] = [pc |-> "write", data |-> produced + 1]]
               /\ plast' = PQuiet
            \/ /\ plast' = PEv("runProc", w, None, "ProducerError")
               /\ UNCHANGED <<procs, produced>>
            \/ /\ procs' = [procs EXCEPT ![w].pc = "exited"]
               /\ plast' = PEv("runProc", w, None, "done")
               /\ UNCHANGED produced
    /\ UNCHANGED <<Buffer, out, ctxDone, inj>>

\* written := p.tryWrite(p.Buffer, data); if !written { p.applyBackpressure() }
runProcWrite(w) ==
    /\ procs[w].pc = "write"
    /\ \E o \in tryWrite(Buffer, procs[w].data) :
          /\ Buffer' = o.ch
          /\ plast' = PEv("runProc", w, procs[w].data, IF o.res = "panic" THEN "panic" ELSE o.how)
          /\ procs' = IF o.res = "panic" THEN procs
                      ELSE [procs EXCEPT ![w] = [pc |-> "loop", data |-> None]]
    /\ UNCHANGED <<out, ctxDone, inj, produced>>

\* p.Buffer <- "foo": the test sends an item itself; the send waits for room
SendBuffer ==
    /\ produced < MaxItems
    /\ Buffer.closed \/ Len(Buffer.buf) < Buffer.cap
    /\ IF Buffer.closed
       THEN /\ plast' = PEv("send", Tester_, produced + 1, "panic")
            /\ UNCHANGED <<Buffer, produced>>
       ELSE /\ Buffer' = [Buffer EXCEPT !.buf = Append(@, produced + 1)]
            /\ produced' = produced + 1
            /\ plast' = PEv("send", Tester_, produced + 1, "sent")
    /\ UNCHANGED <<out, ctxDone, procs, inj>>

\* go p.Inject(ctx, out)
StartInject ==
    /\ inj.pc = "off"
    /\ inj' = [pc |-> "loop", data |-> None]
    /\ plast' = PQuiet
    /\ UNCHANGED <<Buffer, out, ctxDone, procs, produced>>

\* Inject: if p.isCancelled(ctx) { return }; data, ok := p.tryReadBuffer();
\* if !ok { return }.  tryReadBuffer is select { case data := <-p.Buffer: ...
\* default: ... }: a closed and empty Buffer yields nil, true
Inject ==
    /\ inj.pc = "loop"
    /\ IF ctxDone
       THEN /\ inj' = [pc |-> "returned", data |-> None]
            /\ plast' = PEv("Inject", Injector_, None, "cancelled")
            /\ UNCHANGED Buffer
       ELSE IF Len(Buffer.buf) > 0
            THEN /\ inj' = [pc |-> "write", data |-> Head(Buffer.buf)]
                 /\ Buffer' = [Buffer EXCEPT !.buf = Tail(@)]
                 /\ plast' = PQuiet
            ELSE IF Buffer.closed
                 THEN /\ inj' = [pc |-> "write", data |-> None]
                      /\ plast' = PQuiet
                      /\ UNCHANGED Buffer
                 ELSE /\ inj' = [pc |-> "returned", data |-> None]
                      /\ plast' = PEv("Inject", Injector_, None, "empty")
                      /\ UNCHANGED Buffer
    /\ UNCHANGED <<out, ctxDone, procs, produced>>

\* written := p.tryWrite(out, data); if !written { continue }; p.Notifier("InjectFinished")
InjectWrite ==
    /\ inj.pc = "write"
    /\ \E o \in tryWrite(out, inj.data) :
          /\ out' = o.ch
          /\ plast' = PEv("Inject", Injector_, inj.data, IF o.res = "panic" THEN "panic" ELSE o.how)
          /\ inj' = IF o.res = "panic" THEN inj ELSE [pc |-> "loop", data |-> None]
    /\ UNCHANGED <<Buffer, ctxDone, procs, produced>>

\* <-out in the goroutine that consumes
RecvOut ==
    /\ Len(out.buf) > 0
    /\ out' = [out EXCEPT !.buf = Tail(@)]
    /\ plast' = PEv("recv", Tester_, Head(out.buf), "received")
    /\ UNCHANGED <<Buffer, ctxDone, procs, inj, produced>>

\* close(out) by the owner of out, once
CloseOut ==
    /\ ~out.closed
    /\ out' = [out EXCEPT !.closed = TRUE]
    /\ plast' = PQuiet
    /\ UNCHANGED <<Buffer, ctxDone, procs, inj, produced>>

\* cancel()
Cancel ==
    /\ ~ctxDone
    /\ ctxDone' = TRUE
    /\ plast' = PQuiet
    /\ UNCHANGED <<Buffer, out, procs, inj, produced>>

\* p.Close(): close(p.Buffer); closing a closed channel panics
PClose ==
    /\ IF Buffer.closed
       THEN /\ plast' = PEv("Close", Tester_, None, "panic")
            /\ UNCHANGED Buffer
       ELSE /\ Buffer' = [Buffer EXCEPT !.closed = TRUE]
            /\ plast' = PEv("Close", Tester_, None, "closed")
    /\ UNCHANGED <<out, ctxDone, procs, inj, produced>>

ProdInit ==
    /\ PoolUnused
    /\ TbStart(FALSE)
    /\ \E bufferSize \in 1..MaxBuffer, outSize \in 1..MaxBuffer : NewProducer(bufferSize, outSize)
    /\ clock = ZeroTime + 1
    /\ NewLeakyBucket(1, 1)
    /\ NewCounter(1)
    /\ LaterStart

otherThanProd == <<poolVars, tbVars, clock, lbVars, ctrVars, consVars, swVars>>

ProdNext ==
    \/ PRunning /\ Run /\ UNCHANGED otherThanProd
    \/ PRunning /\ \E w \in 1..NumProcs : runProc(w) /\ UNCHANGED otherThanProd
    \/ PRunning /\ \E w \in 1..NumProcs : runProcWrite(w) /\ UNCHANGED otherThanProd
    \/ PRunning /\ SendBuffer /\ UNCHANGED otherThanProd
    \/ PRunning /\ StartInject /\ UNCHANGED otherThanProd
    \/ PRunning /\ Inject /\ UNCHANGED otherThanProd
    \/ PRunning /\ InjectWrite /\ UNCHANGED otherThanProd
    \/ PRunning /\ RecvOut /\ UNCHANGED otherThanProd
    \/ PRunning /\ CloseOut /\ UNCHANGED otherThanProd
    \/ PRunning /\ Cancel /\ UNCHANGED otherThanProd
    \/ PRunning /\ PClose /\ UNCHANGED otherThanProd

ProdSpec == ProdInit /\ [][ProdNext]_vars

\* the goroutines of Run and Inject are scheduled
ProdFairSpec ==
    /\ ProdSpec
    /\ WF_prodVars(PRunning /\ (Inject \/ InjectWrite))
    /\ \A w \in 1..NumProcs : WF_prodVars(PRunning /\ (runProc(w) \/ runProcWrite(w)))

(***************************************************************************)
(* rate-limiting/leaky_bucket and rate-limiting/counter.  The clock counts *)
(* ticks of 1/TicksPerSecond second; a time.Time is a number of ticks and  *)
(* ZeroTime is the zero time.Time, which time.Now() never returns.         *)
(***************************************************************************)
\* int(elapsed.Seconds() * rate): the conversion truncates
Outflow(elapsed, rate) == (elapsed * rate) \div TicksPerSecond

\* (b *LeakyBucket) Allow()
LeakyAllow ==
    /\ lb.requests < MaxRequests
    /\ LET requests == lb.requests + 1
           elapsed == clock - lb.lastTime
           outflow == Outflow(elapsed, lb.rate)
       IN  IF lb.lastTime = ZeroTime
           THEN /\ lb' = [lb EXCEPT !.requests = 0, !.lastTime = clock]
                /\ lblast' = [op |-> "first", ret |-> TRUE, requests |-> requests,
                              outflow |-> 0, elapsed |-> 0]
           ELSE IF requests >= lb.capacity
                THEN /\ lb' = [lb EXCEPT !.requests = requests]
                     /\ lblast' = [op |-> "Allow", ret |-> FALSE, requests |-> requests,
                                   outflow |-> outflow, elapsed |-> elapsed]
                ELSE IF outflow >= requests
                     THEN /\ lb' = [lb EXCEPT !.requests = 0, !.lastTime = clock]
                          /\ lblast' = [op |-> "Allow", ret |-> TRUE, requests |-> requests,
                                        outflow |-> outflow, elapsed |-> elapsed]
                     ELSE /\ lb' = [lb EXCEPT !.requests = requests]
                          /\ lblast' = [op |-> "Allow", ret |-> FALSE, requests |-> requests,
                                        outflow |-> outflow, elapsed |-> elapsed]
    /\ UNCHANGED clock

\* time passes between two calls
LeakyTick ==
    /\ clock < MaxClock
    /\ clock' = clock + 1
    /\ lblast' = LbQuiet
    /\ UNCHANGED lb

LbInit ==
    /\ PoolUnused
    /\ TbStart(FALSE)
    /\ NewProducer(1, 1)
    /\ clock = ZeroTime + 1
    /\ \E capacity \in 1..MaxLeak, rate \in 1..MaxRate : NewLeakyBucket(capacity, rate)
    /\ NewCounter(1)
    /\ LaterStart

otherThanLb == <<poolVars, tbVars, prodVars, ctrVars, consVars, swVars>>

LbNext ==
    \/ LeakyAllow /\ UNCHANGED otherThanLb
    \/ LeakyTick /\ UNCHANGED otherThanLb

LbSpec == LbInit /\ [][LbNext]_vars

(* ---- Counter.Allow: no lock; c.reqs++ is a load and a store ---- *)
\* now := time.Now(); if c.last.IsZero() ...; elapsed := now.Sub(c.last)
CounterAllow(c) ==
    /\ cg[c].pc = "idle"
    /\ ctr.reqs < MaxRequests
    /\ cg' = [cg EXCEPT ![c] = IF ctr.last = ZeroTime
                                THEN [pc |-> "first", now |-> clock, elapsed |-> 0, reg |-> 0]
                                ELSE [pc |-> "load", now |-> clock, elapsed |-> clock - ctr.last, reg |-> 0]]
    /\ clast' = CQuiet
    /\ UNCHANGED <<ctr, clock>>

\* c.last = now; c.reqs = 1; return true
CounterFirst(c) ==
    /\ cg[c].pc = "first"
    /\ ctr' = [ctr EXCEPT !.last = cg[c].now, !.reqs = 1]
    /\ cg' = [cg EXCEPT ![c] = [pc |-> "idle", now |-> 0, elapsed |-> 0, reg |-> 0]]
    /\ clast' = [op |-> "Allow", who |-> c, ret |-> TRUE]
    /\ UNCHANGED clock

\* c.reqs++: the load
CounterLoad(c) ==
    /\ cg[c].pc = "load"
    /\ cg' = [cg EXCEPT ![c].pc = "store", ![c].reg = ctr.reqs]
    /\ clast' = CQuiet
    /\ UNCHANGED <<ctr, clock>>

\* c.reqs++: the store
CounterStore(c) ==
    /\ cg[c].pc = "store"
    /\ ctr' = [ctr EXCEPT !.reqs = cg[c].reg + 1]
    /\ cg' = [cg EXCEPT ![c].pc = "check", ![c].reg = 0]
    /\ clast' = [op |-> "inc", who |-> c, ret |-> FALSE]
    /\ UNCHANGED clock

\* if float64(c.reqs) > float64(c.rps)*elapsed.Seconds() { return false };
\* c.last = now; c.reqs = 0; return true
CounterCheck(c) ==
    /\ cg[c].pc = "check"
    /\ IF ctr.reqs * TicksPerSecond > ctr.rps * cg[c].elapsed
       THEN /\ clast' = [op |-> "Allow", who |-> c, ret |-> FALSE]
            /\ UNCHANGED ctr
       ELSE /\ ctr' = [ctr EXCEPT !.last = cg[c].now, !.reqs = 0]
            /\ clast' = [op |-> "Allow", who |-> c, ret |-> TRUE]
    /\ cg' = [cg EXCEPT ![c] = [pc |-> "idle", now |-> 0, elapsed |-> 0, reg |-> 0]]
    /\ UNCHANGED clock

\* time passes
CounterTick ==
    /\ clock < MaxClock
    /\ clock' = clock + 1
    /\ clast' = CQuiet
    /\ UNCHANGED <<ctr, cg>>

CtrInit ==
    /\ PoolUnused
    /\ TbStart(FALSE)
    /\ NewProducer(1, 1)
    /\ clock = ZeroTime + 1
    /\ NewLeakyBucket(1, 1)
    /\ \E rps \in 1..MaxRps : NewCounter(rps)
    /\ LaterStart

otherThanCtr == <<poolVars, tbVars, prodVars, lbVars, consVars, swVars>>

CtrNext ==
    \/ \E c \in Callers : CounterAllow(c) /\ UNCHANGED otherThanCtr
    \/ \E c \in Callers : CounterFirst(c) /\ UNCHANGED otherThanCtr
    \/ \E c \in Callers : CounterLoad(c) /\ UNCHANGED otherThanCtr
    \/ \E c \in Callers : CounterStore(c) /\ UNCHANGED otherThanCtr
    \/ \E c \in Callers : CounterCheck(c) /\ UNCHANGED otherThanCtr
    \/ CounterTick /\ UNCHANGED otherThanCtr

CtrSpec == CtrInit /\ [][CtrNext]_vars

(* ---- C22 ---- *)
\* C22: while no Close was called on a bucket, 0 <= Available() <= Capacity() in
\* every state the filler goroutine, Take and Put can reach.
AvailableInRange ==
    \A b \in Buckets :
        ~tb[b].closeCalled => 0 <= tb[b].available /\ tb[b].available <= tb[b].capacity

(* ---- C23 ---- *)
\* a store of tb.available is held back by the bound MaxDrift of the model
AtDriftBound ==
    \/ \E b \in Buckets : filler[b].pc = "store" /\ filler[b].reg + 1 > tb[b].capacity + MaxDrift
    \/ \E c \in Callers :
          \/ tcall[c].pc = "putStore" /\ tcall[c].reg + 1 > tb[tcall[c].b].capacity + MaxDrift
          \/ tcall[c].pc = "takeStore" /\ tcall[c].reg - 1 < -MaxDrift

\* C23: a Take that finds Available() at 0 returns "no tokens available" and leaves
\* the bucket as it was; a Take that finds Available() above 0 gets its token
\* without waiting forever, and when it returns nil Available() is one lower than
\* it was just before and the caller has taken one token.  One caller or several.
TakeContract ==
    /\ [][\A c \in Callers :
            /\ (tlast'.op = "Take" /\ tlast'.who = c /\ tlast'.err = "no tokens available")
                  => tb' = tb /\ tb[tlast'.b].available = 0
            /\ (tcall[c].pc = "idle" /\ tcall'[c].pc = "takeRecv")
                  => tb[tcall'[c].b].available > 0
            /\ (tcall[c].pc = "takeStore" /\ tcall'[c].pc = "idle")
                  => tb'[tcall[c].b].available = tb[tcall[c].b].available - 1]_vars
    /\ \A c \in Callers :
          (tcall[c].pc = "takeRecv")
          ~> (tcall[c].pc # "takeRecv" \/ ~TbRunning \/ AtDriftBound)

(* ---- C24 ---- *)
\* Close has returned on bucket b
CloseReturned(b) == IF b \in Buckets THEN tb[b].closeReturned ELSE FALSE

\* the filler of bucket b has left its loop and both channels of b are closed
FillerStopped(b) ==
    IF b \in Buckets
    THEN filler[b].pc = "exited" /\ tb[b].closed /\ tb[b].tokensClosed
    ELSE FALSE

\* C24: once Close has returned on a bucket, whichever buckets the process closed
\* before, the bucket's filler goroutine exits and tb.closed and tb.tokens are
\* closed, so that nothing fills the bucket any more.
CloseStopsFiller ==
    \A b \in 1..NumBuckets : CloseReturned(b) ~> (FillerStopped(b) \/ ~TbRunning \/ AtDriftBound)

(* ---- C25 ---- *)
\* C25: Inject returns only when the context is cancelled or out is closed; an
\* empty Buffer does not end it.
InjectKeepsRunning ==
    [][(inj.pc # "returned" /\ inj'.pc = "returned") => (ctxDone \/ out.closed)]_vars

(* ---- C26 ---- *)
\* C26: Inject takes the oldest item of Buffer, and the item it took goes to the
\* tail of out whenever out is open and has room; it is dropped only when out is
\* full.
InjectFifo ==
    [][/\ (inj.pc = "loop" /\ inj'.pc = "write" /\ Len(Buffer.buf) > 0)
            => inj'.data = Head(Buffer.buf) /\ Buffer'.buf = Tail(Buffer.buf)
       /\ (inj.pc = "write" /\ inj'.pc = "loop" /\ inj.data # None /\ ~out.closed)
            => (Len(out.buf) < out.cap => out'.buf = Append(out.buf, inj.data))]_vars

(* ---- C27 ---- *)
\* C27: once Close has closed Buffer, a running Inject returns, every value in out
\* is an item that was produced, and no runProc goroutine panics in its send on
\* Buffer.
CloseEndsWorkers ==
    /\ (Buffer.closed /\ inj.pc \in {"loop", "write"}) ~> (inj.pc = "returned" \/ ~PRunning)
    /\ [](\A i \in 1..Len(out.buf) : out.buf[i] \in 1..produced)
    /\ [](~(plast.op = "runProc" /\ plast.res = "panic"))

(* ---- C28 ---- *)
\* C28: whatever calls came before, an Allow call of the leaky bucket made when
\* the outflow since the last allowed request covers the pending requests,
\* this one included, returns true.
LeakyRecovers ==
    [][(lblast'.op = "Allow" /\ lblast'.outflow >= lblast'.requests) => lblast'.ret]_vars

(* ---- C29 ---- *)
\* C29: every c.reqs++ of an Allow call of the counter raises c.reqs by one over
\* the value it has then, whatever other Allow calls run at the same time: no
\* update of the request count is lost.
CounterNoLostUpdate ==
    [][\A c \in Callers :
          (cg[c].pc = "store" /\ cg'[c].pc = "check") => ctr'.reqs = ctr.reqs + 1]_vars
(* ---- C31 ---- *)
\* the Cleaner goroutine is inside a Cleaner() call
InTick == cl.pc # "sleep"

\* C31: every Cleaner() call the ticker starts on an open pool returns, whatever
\* p.conns holds and whatever Acquire and Release calls run next to it.
TickTerminates == (phase = "open" /\ InTick) ~> ~InTick

(* ---- C32 ---- *)
\* OpenConnection calls MaintainMinConnections has to make from k idle connections
Missing(k) == IF k < minConnections THEN minConnections - k ELSE 0

LiveEntries ==
    {e \in Created : dbconns[e].closed = 0 /\ (Offered(e, conns) \/ Holders(e) # {})}

\* C34: an open pool never has more than maxConnections open connections in
\* p.conns and in the hands of its callers together.
LiveWithinMax == phase = "open" => Cardinality(LiveEntries) <= maxConnections

(* ---- C35 ---- *)
\* no call is in progress and the filler of bucket b is between two ticks
TbIdle(b) == filler[b].pc = "select" /\ \A c \in Callers : tcall[c].pc = "idle"

\* C35: on a bucket that was not closed, whenever the filler is between two ticks
\* and no Take, Put or Wait is in progress, Available() is the number of tokens
\* in tb.tokens.
AvailableIsBuffered ==
    \A b \in Buckets :
        (~tb[b].closeCalled /\ TbIdle(b)) => tb[b].available = tb[b].tokens

(* ---- C36 ---- *)
\* C36: neither fillToken nor Put sends on tb.tokens after Close has closed it:
\* no send of theirs panics, and the number of tokens in a closed tb.tokens
\* never grows.
NoSendAfterClose ==
    /\ [](tlast.op \in {"fillToken", "Put"} => tlast.err # "panic")
    /\ [][\A b \in Buckets : tb[b].tokensClosed => tb'[b].tokens <= tb[b].tokens]_vars

(* ---- C39 ---- *)
\* the contents of channel ch after a tryWrite(ch, data) that took case how are
\* those before it, with data added at the end when the call returned true
OnlyAdded(before, after, data, how) ==
    IF how = "send" THEN after.buf = Append(before.buf, data) ELSE after.buf = before.buf

\* C39: a tryWrite call of runProc on p.Buffer, or of Inject on out, removes
\* nothing from the channel: when it returns true the item was added at the end,
\* and when it returns false the channel holds what it held before.
TryWriteOnlyAdds ==
    [][/\ (plast'.op = "runProc" /\ plast'.res \in {"recv", "send", "default"}) =>
             OnlyAdded(Buffer, Buffer', plast'.data, plast'.res)
       /\ (plast'.op = "Inject" /\ plast'.res \in {"recv", "send", "default"}) =>
             OnlyAdded(out, out', plast'.data, plast'.res)]_vars

(***************************************************************************)
(* producer-consumer: the Consumer.  Items are numbered 1..MaxItems in the *)
(* order they are sent on c.Buffer; None is the nil a closed channel       *)
(* yields.                                                                 *)
(***************************************************************************)
CoEv(op, who, data, res, notified, handled) ==
    [op |-> op, who |-> who, data |-> data, res |-> res, notified |-> notified, handled |-> handled]

\* a call of a nil func value panics, as does a send on or close of a closed channel
CoRunning == colast.res # "panic"

\* a faulty variant of tryReadBuffer: the item is read and stays in the channel
tryReadBufferPeek(ch) ==
    IF Len(ch.buf) > 0
    THEN [ch |-> ch, data |-> Head(ch.buf), ok |-> TRUE]
    ELSE IF ch.closed
         THEN [ch |-> ch, data |-> None, ok |-> TRUE]
         ELSE [ch |-> ch, data |-> None, ok |-> FALSE]

\* select { case data := <-c.Buffer: return data, true; default: return nil, false }
\* a closed and empty c.Buffer yields nil, true
tryReadBuffer(ch) ==
    IF Len(ch.buf) > 0
    THEN [ch |-> [ch EXCEPT !.buf = Tail(@)], data |-> Head(ch.buf), ok |-> TRUE]
    ELSE IF ch.closed
         THEN [ch |-> ch, data |-> None, ok |-> TRUE]
         ELSE [ch |-> ch, data |-> None, ok |-> FALSE]

\* c.Run(ctx): for each of the NumConsumers processors wg.Add(1),
\* c.Notifier("ConsumerStarted"), go c.runProc(ctx, &wg); then wg.Wait().
\* c.Notifier is called unguarded: a nil Notifier panics
ConsumerRun ==
    /\ crun = "off"
    /\ IF Notifier
       THEN /\ crun' = "running"
            /\ cprocs' = [w \in 1..NumConsumers |-> [pc |-> "loop", data |-> None]]
            /\ colast' = CoEv("Run", Nobody, None, "started", TRUE, FALSE)
       ELSE /\ colast' = CoEv("Run", Nobody, None, "panic", FALSE, FALSE)
            /\ UNCHANGED <<crun, cprocs>>
    /\ UNCHANGED <<cBuffer, Notifier, ErrHandler, cCtxDone, fed, consumed>>

\* runProc: if c.isCancelled(ctx) { return }; if c.isTimedOut(timeout) { return }:
\* the timer of time.After(2s) was just made, so the select takes default;
\* data, ok := c.tryReadBuffer(); if !ok { return }
consumerRunProc(w) ==
    /\ cprocs[w].pc = "loop"
    /\ IF cCtxDone
       THEN /\ cprocs' = [cprocs EXCEPT ![w] = [pc |-> "exited", data |-> None]]
            /\ colast' = CoEv("runProc", w, None, "cancelled", FALSE, FALSE)
            /\ UNCHANGED cBuffer
       ELSE LET r == tryReadBuffer(cBuffer)
            IN  /\ cBuffer' = r.ch
                /\ IF r.ok
                   THEN /\ cprocs' = [cprocs EXCEPT ![w] = [pc |-> "consume", data |-> r.data]]
                        /\ colast' = CoQuiet
                   ELSE /\ cprocs' = [cprocs EXCEPT ![w] = [pc |-> "exited", data |-> None]]
                        /\ colast' = CoEv("runProc", w, None, "empty", FALSE, FALSE)
    /\ UNCHANGED <<Notifier, ErrHandler, cCtxDone, crun, fed, consumed>>

\* err := c.ConsumeFunc(data); if err != nil { c.handleError(err) }.  handleError
\* is c.Notifier("ConsumerError"); if c.ErrHandler != nil { c.ErrHandler(err) }
consume(w) ==
    /\ cprocs[w].pc = "consume"
    /\ consumed' = IF cprocs[w].data = None THEN consumed
                   ELSE [consumed EXCEPT ![cprocs[w].data] = @ + 1]
    /\ \E err \in BOOLEAN :
          IF err /\ ~Notifier
          THEN /\ colast' = CoEv("ConsumeFunc", w, cprocs[w].data, "panic", FALSE, FALSE)
               /\ cprocs' = cprocs
          ELSE /\ colast' = CoEv("ConsumeFunc", w, cprocs[w].data,
                                 IF err THEN "error" ELSE "nil", err, err /\ ErrHandler)
               /\ cprocs' = [cprocs EXCEPT ![w] = [pc |-> "loop", data |-> None]]
    /\ UNCHANGED <<cBuffer, Notifier, ErrHandler, cCtxDone, crun, fed>>

\* wg.Wait() of c.Run returns when every runProc has returned
ConsumerRunReturn ==
    /\ crun = "running"
    /\ \A w \in 1..NumConsumers : cprocs[w].pc = "exited"
    /\ crun' = "returned"
    /\ colast' = CoEv("Run", Nobody, None, "returned", FALSE, FALSE)
    /\ UNCHANGED <<cBuffer, Notifier, ErrHandler, cCtxDone, cprocs, fed, consumed>>

\* c.Buffer <- data by the goroutine that feeds the consumer; the send waits for room
Feed ==
    /\ fed < MaxItems
    /\ cBuffer.closed \/ Len(cBuffer.buf) < cBuffer.cap
    /\ IF cBuffer.closed
       THEN /\ colast' = CoEv("send", Tester_, fed + 1, "panic", FALSE, FALSE)
            /\ UNCHANGED <<cBuffer, fed>>
       ELSE /\ cBuffer' = [cBuffer EXCEPT !.buf = Append(@, fed + 1)]
            /\ fed' = fed + 1
            /\ colast' = CoEv("send", Tester_, fed + 1, "sent", FALSE, FALSE)
    /\ UNCHANGED <<Notifier, ErrHandler, cCtxDone, cprocs, crun, consumed>>

\* cancel()
ConsumerCancel ==
    /\ ~cCtxDone
    /\ cCtxDone' = TRUE
    /\ colast' = CoQuiet
    /\ UNCHANGED <<cBuffer, Notifier, ErrHandler, cprocs, crun, fed, consumed>>

\* c.Close(): close(c.Buffer); closing a closed channel panics
ConsumerClose ==
    /\ IF cBuffer.closed
       THEN /\ colast' = CoEv("Close", Tester_, None, "panic", FALSE, FALSE)
            /\ UNCHANGED cBuffer
       ELSE /\ cBuffer' = [cBuffer EXCEPT !.closed = TRUE]
            /\ colast' = CoEv("Close", Tester_, None, "closed", FALSE, FALSE)
    /\ UNCHANGED <<Notifier, ErrHandler, cCtxDone, cprocs, crun, fed, consumed>>

ConsInit ==
    /\ PoolUnused
    /\ TbStart(FALSE)
    /\ NewProducer(1, 1)
    /\ clock = ZeroTime + 1
    /\ NewLeakyBucket(1, 1)
    /\ NewCounter(1)
    /\ \E bufferSize \in 1..MaxBuffer, notifier \in BOOLEAN, errHandler \in BOOLEAN :
          NewConsumer(bufferSize, notifier, errHandler)
    /\ NewWindow(1, 1, 1)

otherThanCons == <<poolVars, tbVars, prodVars, clock, lbVars, ctrVars, swVars>>

ConsNext ==
    \/ CoRunning /\ ConsumerRun /\ UNCHANGED otherThanCons
    \/ CoRunning /\ \E w \in 1..NumConsumers : consumerRunProc(w) /\ UNCHANGED otherThanCons
    \/ CoRunning /\ \E w \in 1..NumConsumers : consume(w) /\ UNCHANGED otherThanCons
    \/ CoRunning /\ ConsumerRunReturn /\ UNCHANGED otherThanCons
    \/ CoRunning /\ Feed /\ UNCHANGED otherThanCons
    \/ CoRunning /\ ConsumerCancel /\ UNCHANGED otherThanCons
    \/ CoRunning /\ ConsumerClose /\ UNCHANGED otherThanCons

ConsSpec == ConsInit /\ [][ConsNext]_vars

\* the goroutines of Run are scheduled
ConsFairSpec ==
    /\ ConsSpec
    /\ \A w \in 1..NumConsumers : WF_consVars(CoRunning /\ (consumerRunProc(w) \/ consume(w)))
    /\ WF_consVars(CoRunning /\ ConsumerRunReturn)

(* ---- C37 ---- *)
\* item d was sent on c.Buffer and a worker has received it
Removed(d) == d <= fed /\ ~InSeq(d, cBuffer.buf)

\* the workers that received item d and have not passed it to ConsumeFunc yet
Consuming(d) == {w \in 1..NumConsumers : cprocs[w].pc = "consume" /\ cprocs[w].data = d}

\* C37: no item is passed to ConsumeFunc twice, by one worker or by two; an item
\* a worker received from c.Buffer is in that worker's hands until it has been
\* passed to ConsumeFunc once; and a worker whose ConsumeFunc call returns is back
\* at the head of its loop, after calling Notifier, and ErrHandler when it is
\* set, if the call returned an error.
ConsumedExactlyOnce ==
    /\ [](\A d \in 1..MaxItems :
            /\ consumed[d] + Cardinality(Consuming(d)) <= 1
            /\ Removed(d) => consumed[d] + Cardinality(Consuming(d)) = 1)
    /\ [][\A w \in 1..NumConsumers :
             (cprocs[w].pc = "consume" /\ cprocs'[w].pc # "consume") =>
                /\ cprocs'[w].pc = "loop"
                /\ colast'.op = "ConsumeFunc" /\ colast'.who = w
                /\ colast'.data = cprocs[w].data
                /\ colast'.res = "error" =>
                      (colast'.notified /\ (ErrHandler => colast'.handled))]_vars

\* a ConsumeFunc call on item d has just returned an error, which Notifier and
\* ErrHandler were told; its worker is at the head of its loop with the next
\* item waiting in c.Buffer, and the other worker is consuming another item
ErrorReportedWorkerGoesOn ==
    \E w \in 1..NumConsumers, d \in 1..MaxItems :
       /\ colast = CoEv("ConsumeFunc", w, d, "error", TRUE, TRUE)
       /\ consumed[d] = 1
       /\ cprocs[w].pc = "loop"
       /\ Len(cBuffer.buf) > 0
       /\ \E v \in 1..NumConsumers :
             v # w /\ cprocs[v].pc = "consume" /\ cprocs[v].data \notin {None, d}

(* ---- C38 ---- *)
\* C38: once Run was called, an item in c.Buffer is passed to ConsumeFunc by a
\* worker unless the context is cancelled, and Run has not returned while an
\* item waits in c.Buffer and the context is not cancelled.
BufferedIsConsumed ==
    /\ \A d \in 1..MaxItems :
          (crun # "off" /\ InSeq(d, cBuffer.buf) /\ ~cCtxDone)
          ~> (consumed[d] >= 1 \/ cCtxDone \/ ~CoRunning)
    /\ []((crun = "returned" /\ ~cCtxDone /\ CoRunning) => Len(cBuffer.buf) = 0)

(***************************************************************************)
(* rate-limiting: the sliding window (package window).  Durations are      *)
(* numbers of clock ticks.  sw.buckets[i] of the code is buckets[i + 1].   *)
(***************************************************************************)
\* a slice indexed out of range panics
SwRunning == swlast.ret # "panic"

\* elapsed := time.Sub(sw.startTime).Nanoseconds(); idx := int(secs / bucketSizeSecs)
getBucketIndex(time, startTime, bucketSize) == (time - startTime) \div bucketSize

\* sw.startTime = now; sw.lastRequestTime = now; every bucket count is cleared
resetWindow(w, t) ==
    [w EXCEPT !.startTime = t, !.lastRequestTime = t,
              !.buckets = [i \in 1..Len(w.buckets) |-> 0]]

\* requests counted in the buckets
SwTotal == LET RECURSIVE sum(_)
               sum(i) == IF i = 0 THEN 0 ELSE sw.buckets[i] + sum(i - 1)
           IN  sum(Len(sw.buckets))

\* sw.Allow(), under sw.Lock(): the start time is set on the first call; a request
\* later than windowSize after it resets the window and is refused; otherwise
\* sw.buckets[getBucketIndex(now)]++ and sw.lastRequestTime = now
SwAllow ==
    LET start == IF sw.startTime = ZeroTime THEN clock ELSE sw.startTime
        idx == getBucketIndex(clock, start, sw.bucketSize)
    IN  IF clock - start > sw.windowSize
        THEN /\ sw' = resetWindow(sw, clock)
             /\ swlast' = [op |-> "Allow", ret |-> "false", idx |-> 0]
        ELSE IF idx < 0 \/ idx >= Len(sw.buckets)
             THEN /\ sw' = [sw EXCEPT !.startTime = start]
                  /\ swlast' = [op |-> "Allow", ret |-> "panic", idx |-> idx]
             ELSE /\ SwTotal < MaxRequests
                  /\ sw' = [sw EXCEPT !.startTime = start, !.lastRequestTime = clock,
                                      !.buckets[idx + 1] = @ + 1]
                  /\ swlast' = [op |-> "Allow", ret |-> "true", idx |-> idx]

\* sw.Reset(): for i := 0; i < sw.bucketCount; i++ { sw.buckets[i] = 0 }
SwReset ==
    /\ sw' = [sw EXCEPT !.buckets = [i \in 1..Len(sw.buckets) |-> 0]]
    /\ swlast' = [op |-> "Reset", ret |-> "-", idx |-> 0]

SwTick ==
    /\ clock < MaxClock
    /\ clock' = clock + 1
    /\ swlast' = SwQuiet
    /\ UNCHANGED sw

\* the windows New accepts: windowSize % bucketSize = 0 and bucketCount > 0
SwInit ==
    /\ PoolUnused
    /\ TbStart(FALSE)
    /\ NewProducer(1, 1)
    /\ clock = ZeroTime + 1
    /\ NewLeakyBucket(1, 1)
    /\ NewCounter(1)
    /\ NewConsumer(1, TRUE, TRUE)
    /\ \E windowSize \in 1..MaxWindow, bucketSize \in 1..MaxWindow, bucketCount \in 1..MaxBuckets :
          /\ windowSize % bucketSize = 0
          /\ NewWindow(windowSize, bucketSize, bucketCount)

otherThanSw == <<poolVars, tbVars, prodVars, lbVars, ctrVars, consVars>>

SwNext ==
    \/ SwRunning /\ SwAllow /\ UNCHANGED <<clock, otherThanSw>>
    \/ SwRunning /\ SwReset /\ UNCHANGED <<clock, otherThanSw>>
    \/ SwRunning /\ SwTick /\ UNCHANGED otherThanSw

SwSpec == SwInit /\ [][SwNext]_vars

(* ---- C40 ---- *)
\* C40: the bucket index an Allow call computes for a request it does not refuse
\* lies in 0..bucketCount - 1, so that sw.buckets[bucketIdx] is in range.
BucketIndexInRange ==
    (swlast.op = "Allow" /\ swlast.ret # "false") =>
        (0 <= swlast.idx /\ swlast.idx < sw.bucketCount)

====
